---- MODULE Spec2Model ----
(***************************************************************************)
(* Behavior tree engine of BehaviorTree.ts: nodes with deferred            *)
(* interrupt/reset flags, Sequence/Selector composites, Action/Condition   *)
(* leaves, Inverter/Repeater decorators, and the controller's two-phase    *)
(* tick (processTreeStateChanges, then root.update).                       *)
(***************************************************************************)
EXTENDS Integers, Sequences, FiniteSets, TLC

\* ------------------------------------------------------------------------
\* Bounds
\* ------------------------------------------------------------------------

\* largest number of leaves put under a flat Sequence/Selector root
MaxChildren == 3

\* largest repeat count given to a Repeater
MaxTimes == 2

\* largest value followed for the counter of a Repeater that has no count
MaxCount == 3

\* clock checks of one Lib tick that can find the time within budget before one finds it over
MaxBudget == 3

\* largest WaitNode.elapsedTime followed
MaxElapsed == 3

\* most nodes of a tree assembled by a builder call chain, the root included
MaxBuilt == 4

\* ------------------------------------------------------------------------
\* Tree shapes.  A tree is a sequence of node descriptions; node 1 is the
\* root created by the component.  children is the composite's ordered
\* child list, child the decorator's child slot (0 = not set), times the
\* Repeater's count (0 = not given).
\* ------------------------------------------------------------------------

Node(k, cs, c, t) == [kind |-> k, children |-> cs, child |-> c, times |-> t]

Leaf(k) == Node(k, <<>>, 0, 0)

LeafKinds == {"Condition", "Action"}

RootKinds == {"Sequence", "Selector"}

RECURSIVE SeqsUpTo(_, _)
SeqsUpTo(S, n) ==
  IF n = 0 THEN {<<>>}
  ELSE LET shorter == SeqsUpTo(S, n - 1)
       IN shorter \cup {Append(q, x) : q \in {p \in shorter : Len(p) = n - 1}, x \in S}

\* createBehaviorTree(owner, rk).condition(..).action(..)...build()
FlatTree(rk, ks) ==
  <<Node(rk, [i \in 1..Len(ks) |-> i + 1], 0, 0)>> \o [i \in 1..Len(ks) |-> Leaf(ks[i])]

FlatTrees == {FlatTree(rk, ks) : rk \in RootKinds, ks \in SeqsUpTo(LeafKinds, MaxChildren)}

\* selector root: .sequence().condition().action().end().action()
NestedTree ==
  << Node("Selector", <<2, 5>>, 0, 0),
     Node("Sequence", <<3, 4>>, 0, 0), Leaf("Condition"), Leaf("Action"),
     Leaf("Action") >>

\* sequence root: .selector().condition().condition().end()
\*                .sequence().condition().action().end()
NestedTree2 ==
  << Node("Sequence", <<2, 5>>, 0, 0),
     Node("Selector", <<3, 4>>, 0, 0), Leaf("Condition"), Leaf("Condition"),
     Node("Sequence", <<6, 7>>, 0, 0), Leaf("Condition"), Leaf("Action") >>

\* selector root: .inverter().condition().end().repeater(t).action().end()
DecoratorTree(t) ==
  << Node("Selector", <<2, 4>>, 0, 0),
     Node("Inverter", <<>>, 3, 0), Leaf("Condition"),
     Node("Repeater", <<>>, 5, t), Leaf("Action") >>

\* sequence root: .repeater(t).condition().end().inverter().end()
DecoratorTree2(t) ==
  << Node("Sequence", <<2, 4>>, 0, 0),
     Node("Repeater", <<>>, 3, t), Leaf("Condition"),
     Node("Inverter", <<>>, 0, 0) >>

\* selector root: .repeater(t).sequence().condition().action().end().end()
DecoratorTree3(t) ==
  << Node("Selector", <<2>>, 0, 0),
     Node("Repeater", <<>>, 3, t),
     Node("Sequence", <<4, 5>>, 0, 0), Leaf("Condition"), Leaf("Action") >>

\* selector root: .inverter().condition().condition().end(): the second
\* setChild overwrites the first; node 3 stays subscribed but unreachable
OverwrittenTree ==
  << Node("Selector", <<2>>, 0, 0),
     Node("Inverter", <<>>, 4, 0), Leaf("Condition"), Leaf("Condition") >>

Trees ==
  FlatTrees
    \cup {NestedTree, NestedTree2, OverwrittenTree}
    \cup {DecoratorTree(t) : t \in 0..MaxTimes}
    \cup {DecoratorTree2(t) : t \in 0..MaxTimes}
    \cup {DecoratorTree3(t) : t \in 0..MaxTimes}

\* ------------------------------------------------------------------------
\* State
\* ------------------------------------------------------------------------

VARIABLES
  tree,            \* structure: kind, children, child, times of every node
  subscribed,      \* nodes whose handlers are registered on interruptEmitter
  needsInterrupt,  \* BaseNode._needsInterrupt
  needsReset,      \* BaseNode._needsReset
  isInterrupted,   \* BaseNode.isInterrupted
  currentIndex,    \* CompositeNode.currentIndex (0-based)
  hasStarted,      \* ActionNode.hasStarted
  currentCount,    \* RepeaterNode.currentCount
  result,          \* what each node's update returned in the last step ("None": not updated)
  runCalls,        \* owner.actions.runAction calls made by each node in the last step
  clearCalls,      \* owner.actions.clearActions calls made by each node in the last step
  pc,              \* "idle": between ticks; "drained": processTreeStateChanges done, root.update next
  tickEnv,         \* what the callbacks of the last root.update did
  intrSince,       \* interrupt() was called since the previous root.update started its leaf
  resetSince,      \* reset() was called since then
  streak,          \* composite: updates of the current run that advanced the cursor (-1: not such a run)
                   \* Repeater: child successes counted since its counter was last 0 (-1: not such a run)
  runsSince,       \* action: runAction calls since it last returned Success or processed a reset
  prior,           \* the node fields as they were when the last processTreeStateChanges began
  addCall,         \* the last addChild call: the composite, the argument (0: null) and the error raised
  builder,         \* the builders of a call chain, the scope each node was added in, what build() returned
  lib              \* the Lib engine (claudeBT.ts): its tree, every node's fields, the log of its last tick

vars == << tree, subscribed, needsInterrupt, needsReset, isInterrupted, currentIndex,
           hasStarted, currentCount, result, runCalls, clearCalls, pc, tickEnv,
           intrSince, resetSince, streak, runsSince, prior, addCall, builder, lib >>

Nodes == DOMAIN tree

root == 1

kind(n) == tree[n].kind

children(n) == tree[n].children

child(n) == tree[n].child

times(n) == tree[n].times

Signals == {"none", "interrupt", "reset"}

\* the node fields and the call log, threaded through the handlers
State ==
  [ needsInterrupt |-> needsInterrupt, needsReset |-> needsReset,
    isInterrupted |-> isInterrupted, currentIndex |-> currentIndex,
    hasStarted |-> hasStarted, currentCount |-> currentCount,
    result |-> result, runCalls |-> runCalls, clearCalls |-> clearCalls ]

\* the node fields alone
Fields ==
  [ needsInterrupt |-> needsInterrupt, needsReset |-> needsReset,
    isInterrupted |-> isInterrupted, currentIndex |-> currentIndex,
    hasStarted |-> hasStarted, currentCount |-> currentCount ]

\* the same fields with an empty log for the step that begins
Fresh ==
  [ State EXCEPT !.result = [n \in Nodes |-> "None"],
                 !.runCalls = [n \in Nodes |-> 0],
                 !.clearCalls = [n \in Nodes |-> 0] ]

\* ------------------------------------------------------------------------
\* BaseNode: deferred signals
\* ------------------------------------------------------------------------

\* OnInterrupt changed to apply the interrupt at once instead of recording it
OnInterruptApplied(s, n) == [s EXCEPT !.needsInterrupt[n] = TRUE, !.isInterrupted[n] = TRUE]

\* BaseNode.onInterrupt: only records the request
OnInterrupt(s, n) == [s EXCEPT !.needsInterrupt[n] = TRUE]

\* OnReset changed to rewind the node at once
OnResetApplied(s, n) ==
  [s EXCEPT !.needsReset[n] = TRUE, !.isInterrupted[n] = FALSE, !.currentIndex[n] = 0,
            !.hasStarted[n] = FALSE, !.currentCount[n] = 0]

\* BaseNode.onReset: only records the request
OnReset(s, n) == [s EXCEPT !.needsReset[n] = TRUE]

RECURSIVE EmitFrom(_, _, _)
\* the handlers registered for sig run one after the other
EmitFrom(s, sig, n) ==
  IF n > Len(tree) THEN s
  ELSE EmitFrom(IF n \notin subscribed THEN s
                ELSE IF sig = "interrupt" THEN OnInterrupt(s, n) ELSE OnReset(s, n),
                sig, n + 1)

\* interruptEmitter.emit(sig), as called by interrupt() and reset()
Emit(s, sig) == IF sig = "none" THEN s ELSE EmitFrom(s, sig, 1)

\* owner.actions.clearActions() called by node n
ClearActions(s, n) == [s EXCEPT !.clearCalls[n] = @ + 1]

\* owner.actions.runAction(action) called by node n
RunAction(s, n) == [s EXCEPT !.runCalls[n] = @ + 1]

\* handleInterruptStateChange of the node's class
HandleInterruptStateChange(s, n) ==
  CASE kind(n) = "Action" -> IF s.hasStarted[n] THEN ClearActions(s, n) ELSE s
    [] kind(n) = "Repeater" -> [s EXCEPT !.currentCount[n] = 0]
    [] OTHER -> s

\* HandleResetStateChange changed so that a Selector keeps its cursor
\* (its resetCurrentIndex is never called)
HandleResetStateChangeSelectorKeeps(s, n) ==
  CASE kind(n) = "Sequence" -> [s EXCEPT !.isInterrupted[n] = FALSE, !.currentIndex[n] = 0]
    [] kind(n) = "Action" ->
         [(IF s.hasStarted[n] THEN ClearActions(s, n) ELSE s) EXCEPT !.hasStarted[n] = FALSE]
    [] kind(n) = "Repeater" -> [s EXCEPT !.currentCount[n] = 0]
    [] OTHER -> s

\* HandleResetStateChange changed so that an ActionNode clears the queue whether started or not
HandleResetStateChangeAlwaysClears(s, n) ==
  CASE kind(n) = "Sequence" -> [s EXCEPT !.isInterrupted[n] = FALSE, !.currentIndex[n] = 0]
    [] kind(n) = "Selector" -> [s EXCEPT !.currentIndex[n] = 0]
    [] kind(n) = "Action" -> [ClearActions(s, n) EXCEPT !.hasStarted[n] = FALSE]
    [] kind(n) = "Repeater" -> [s EXCEPT !.currentCount[n] = 0]
    [] OTHER -> s

\* handleResetStateChange of the node's class
HandleResetStateChange(s, n) ==
  CASE kind(n) = "Sequence" -> [s EXCEPT !.isInterrupted[n] = FALSE, !.currentIndex[n] = 0]
    [] kind(n) = "Selector" -> [s EXCEPT !.currentIndex[n] = 0]
    [] kind(n) = "Action" ->
         [(IF s.hasStarted[n] THEN ClearActions(s, n) ELSE s) EXCEPT !.hasStarted[n] = FALSE]
    [] kind(n) = "Repeater" -> [s EXCEPT !.currentCount[n] = 0]
    [] OTHER -> s

\* ProcessStateChanges changed to handle the pending reset first, then the pending interrupt
ProcessStateChangesResetFirst(s, n) ==
  LET s1 == IF s.needsReset[n]
            THEN HandleResetStateChange([s EXCEPT !.needsReset[n] = FALSE, !.isInterrupted[n] = FALSE], n)
            ELSE s
  IN IF s1.needsInterrupt[n]
     THEN HandleInterruptStateChange(
            ClearActions([s1 EXCEPT !.needsInterrupt[n] = FALSE, !.isInterrupted[n] = TRUE], n), n)
     ELSE s1

\* BaseNode.processStateChanges: the pending interrupt first, then the pending reset
ProcessStateChanges(s, n) ==
  LET s1 == IF s.needsInterrupt[n]
            THEN HandleInterruptStateChange(
                   ClearActions([s EXCEPT !.needsInterrupt[n] = FALSE, !.isInterrupted[n] = TRUE], n), n)
            ELSE s
  IN IF s1.needsReset[n]
     THEN HandleResetStateChange([s1 EXCEPT !.needsReset[n] = FALSE, !.isInterrupted[n] = FALSE], n)
     ELSE s1

RECURSIVE ProcessTreeStateChanges(_, _)
RECURSIVE ProcessEach(_, _, _)

\* children.forEach(child => processTreeStateChanges(child))
ProcessEach(s, cs, i) ==
  IF i > Len(cs) THEN s ELSE ProcessEach(ProcessTreeStateChanges(s, cs[i]), cs, i + 1)

\* ProcessTreeStateChanges changed to walk children only, as logTree does
ProcessTreeStateChangesChildrenOnly(s, n) ==
  ProcessEach(ProcessStateChanges(s, n), children(n), 1)

\* BehaviorTreeComponent.processTreeStateChanges: the node, its children, its child
ProcessTreeStateChanges(s, n) ==
  LET s1 == ProcessStateChanges(s, n)
      s2 == ProcessEach(s1, children(n), 1)
  IN IF child(n) # 0 THEN ProcessTreeStateChanges(s2, child(n)) ELSE s2

\* ------------------------------------------------------------------------
\* update of every node class.  env is what the callbacks reached in this
\* root.update do: out, the predicate's outcome ("true", "false", "throw");
\* sig, the signal the predicate sends through the controller while it
\* runs; done, what action.isComplete answers.
\* An update yields the new fields and the value returned ("Throw": an
\* error left the call).
\* ------------------------------------------------------------------------

Return(s, n, r) == [st |-> [s EXCEPT !.result[n] = r], res |-> r]

\* for (const child of this.children) child.onReset()
RECURSIVE ResetChildren(_, _, _)
ResetChildren(s, cs, i) ==
  IF i > Len(cs) THEN s ELSE ResetChildren(OnReset(s, cs[i]), cs, i + 1)

RECURSIVE Update(_, _, _)

\* ConditionUpdate changed to process pending signals and fail when interrupted, as the other nodes do
ConditionUpdateHonoursInterrupt(s, n, env) ==
  LET s1 == Emit(ProcessStateChanges(s, n), env.sig)
  IN CASE s1.isInterrupted[n] -> Return(s1, n, "Failure")
       [] env.out = "throw" -> Return(s1, n, "Throw")
       [] env.out = "true" -> Return(s1, n, "Success")
       [] OTHER -> Return(s1, n, "Failure")

\* ConditionNode.update / FunctionConditionNode.evaluate
ConditionUpdate(s, n, env) ==
  LET s1 == Emit(s, env.sig)
  IN CASE env.out = "throw" -> Return(s1, n, "Throw")
       [] env.out = "true" -> Return(s1, n, "Success")
       [] OTHER -> Return(s1, n, "Failure")

\* ActionUpdate changed to leave hasStarted set when the action completes
ActionUpdateKeepsStarted(s, n, env) ==
  LET s1 == ProcessStateChanges(s, n)
  IN IF s1.isInterrupted[n] THEN Return(s1, n, "Failure")
     ELSE LET s2 == IF ~s1.hasStarted[n]
                    THEN [RunAction(s1, n) EXCEPT !.hasStarted[n] = TRUE]
                    ELSE s1
          IN IF s2.hasStarted[n] /\ env.done
             THEN Return(s2, n, "Success")
             ELSE Return(s2, n, "Running")

\* ActionUpdate changed to run the action on every update
ActionUpdateRunsAgain(s, n, env) ==
  LET s1 == ProcessStateChanges(s, n)
  IN IF s1.isInterrupted[n] THEN Return(s1, n, "Failure")
     ELSE LET s2 == [RunAction(s1, n) EXCEPT !.hasStarted[n] = TRUE]
          IN IF s2.hasStarted[n] /\ env.done
             THEN Return([s2 EXCEPT !.hasStarted[n] = FALSE], n, "Success")
             ELSE Return(s2, n, "Running")

\* ActionUpdate changed to go on although the node is interrupted
ActionUpdateIgnoresInterrupt(s, n, env) ==
  LET s1 == ProcessStateChanges(s, n)
      s2 == IF ~s1.hasStarted[n]
            THEN [RunAction(s1, n) EXCEPT !.hasStarted[n] = TRUE]
            ELSE s1
  IN IF s2.hasStarted[n] /\ env.done
     THEN Return([s2 EXCEPT !.hasStarted[n] = FALSE], n, "Success")
     ELSE Return(s2, n, "Running")

\* ActionNode.update
ActionUpdate(s, n, env) ==
  LET s1 == ProcessStateChanges(s, n)
  IN IF s1.isInterrupted[n] THEN Return(s1, n, "Failure")
     ELSE LET s2 == IF ~s1.hasStarted[n]
                    THEN [RunAction(s1, n) EXCEPT !.hasStarted[n] = TRUE]
                    ELSE s1
          IN IF s2.hasStarted[n] /\ env.done
             THEN Return([s2 EXCEPT !.hasStarted[n] = FALSE], n, "Success")
             ELSE Return(s2, n, "Running")

\* SequenceUpdate changed to complete one child early
SequenceUpdateEarlySuccess(s, n, env) ==
  LET s1 == ProcessStateChanges(s, n)
      len == Len(children(n))
  IN IF s1.isInterrupted[n] \/ len = 0 THEN Return(s1, n, "Failure")
     ELSE IF s1.currentIndex[n] >= len THEN Return(s1, n, "Throw")
     ELSE LET r == Update(s1, children(n)[s1.currentIndex[n] + 1], env)
              s2 == r.st
          IN CASE r.res = "Throw" -> Return(s2, n, "Throw")
               [] r.res = "Failure" -> Return([s2 EXCEPT !.currentIndex[n] = 0], n, "Failure")
               [] OTHER ->
                    LET s3 == IF r.res = "Success"
                              THEN [s2 EXCEPT !.currentIndex[n] = @ + 1]
                              ELSE s2
                    IN IF r.res = "Success" /\ s3.currentIndex[n] >= len - 1
                       THEN Return(ResetChildren([s3 EXCEPT !.currentIndex[n] = 0], children(n), 1),
                                   n, "Success")
                       ELSE Return(s3, n, "Running")

\* SequenceUpdate changed to reset its children on failure, as the Selector does
SequenceUpdateFailureResets(s, n, env) ==
  LET s1 == ProcessStateChanges(s, n)
      len == Len(children(n))
  IN IF s1.isInterrupted[n] \/ len = 0 THEN Return(s1, n, "Failure")
     ELSE IF s1.currentIndex[n] >= len THEN Return(s1, n, "Throw")
     ELSE LET r == Update(s1, children(n)[s1.currentIndex[n] + 1], env)
              s2 == r.st
          IN CASE r.res = "Throw" -> Return(s2, n, "Throw")
               [] r.res = "Failure" ->
                    Return(ResetChildren([s2 EXCEPT !.currentIndex[n] = 0], children(n), 1),
                           n, "Failure")
               [] OTHER ->
                    LET s3 == IF r.res = "Success"
                              THEN [s2 EXCEPT !.currentIndex[n] = @ + 1]
                              ELSE s2
                    IN IF s3.currentIndex[n] >= len
                       THEN Return(ResetChildren([s3 EXCEPT !.currentIndex[n] = 0], children(n), 1),
                                   n, "Success")
                       ELSE Return(s3, n, "Running")

\* SequenceUpdate changed so that a Sequence without children succeeds
SequenceUpdateVacuousSuccess(s, n, env) ==
  LET s1 == ProcessStateChanges(s, n)
      len == Len(children(n))
  IN IF s1.isInterrupted[n] THEN Return(s1, n, "Failure")
     ELSE IF len = 0 THEN Return(s1, n, "Success")
     ELSE IF s1.currentIndex[n] >= len THEN Return(s1, n, "Throw")
     ELSE LET r == Update(s1, children(n)[s1.currentIndex[n] + 1], env)
              s2 == r.st
          IN CASE r.res = "Throw" -> Return(s2, n, "Throw")
               [] r.res = "Failure" -> Return([s2 EXCEPT !.currentIndex[n] = 0], n, "Failure")
               [] OTHER ->
                    LET s3 == IF r.res = "Success"
                              THEN [s2 EXCEPT !.currentIndex[n] = @ + 1]
                              ELSE s2
                    IN IF s3.currentIndex[n] >= len
                       THEN Return(ResetChildren([s3 EXCEPT !.currentIndex[n] = 0], children(n), 1),
                                   n, "Success")
                       ELSE Return(s3, n, "Running")

\* SequenceUpdate changed to succeed without calling onReset on its children
SequenceUpdateKeepsChildren(s, n, env) ==
  LET s1 == ProcessStateChanges(s, n)
      len == Len(children(n))
  IN IF s1.isInterrupted[n] \/ len = 0 THEN Return(s1, n, "Failure")
     ELSE IF s1.currentIndex[n] >= len THEN Return(s1, n, "Throw")
     ELSE LET r == Update(s1, children(n)[s1.currentIndex[n] + 1], env)
              s2 == r.st
          IN CASE r.res = "Throw" -> Return(s2, n, "Throw")
               [] r.res = "Failure" -> Return([s2 EXCEPT !.currentIndex[n] = 0], n, "Failure")
               [] OTHER ->
                    LET s3 == IF r.res = "Success"
                              THEN [s2 EXCEPT !.currentIndex[n] = @ + 1]
                              ELSE s2
                    IN IF s3.currentIndex[n] >= len
                       THEN Return([s3 EXCEPT !.currentIndex[n] = 0], n, "Success")
                       ELSE Return(s3, n, "Running")

\* SequenceUpdate changed to move past a child that is still Running
SequenceUpdateAdvancesOnRunning(s, n, env) ==
  LET s1 == ProcessStateChanges(s, n)
      len == Len(children(n))
  IN IF s1.isInterrupted[n] \/ len = 0 THEN Return(s1, n, "Failure")
     ELSE IF s1.currentIndex[n] >= len THEN Return(s1, n, "Throw")
     ELSE LET r == Update(s1, children(n)[s1.currentIndex[n] + 1], env)
              s2 == r.st
          IN CASE r.res = "Throw" -> Return(s2, n, "Throw")
               [] r.res = "Failure" -> Return([s2 EXCEPT !.currentIndex[n] = 0], n, "Failure")
               [] OTHER ->
                    LET s3 == [s2 EXCEPT !.currentIndex[n] = @ + 1]
                    IN IF s3.currentIndex[n] >= len
                       THEN Return(ResetChildren([s3 EXCEPT !.currentIndex[n] = 0], children(n), 1),
                                   n, IF r.res = "Success" THEN "Success" ELSE "Running")
                       ELSE Return(s3, n, "Running")

\* SequenceNode.update
SequenceUpdate(s, n, env) ==
  LET s1 == ProcessStateChanges(s, n)
      len == Len(children(n))
  IN IF s1.isInterrupted[n] \/ len = 0 THEN Return(s1, n, "Failure")
     ELSE IF s1.currentIndex[n] >= len THEN Return(s1, n, "Throw")
     ELSE LET r == Update(s1, children(n)[s1.currentIndex[n] + 1], env)
              s2 == r.st
          IN CASE r.res = "Throw" -> Return(s2, n, "Throw")
               [] r.res = "Failure" -> Return([s2 EXCEPT !.currentIndex[n] = 0], n, "Failure")
               [] OTHER ->
                    LET s3 == IF r.res = "Success"
                              THEN [s2 EXCEPT !.currentIndex[n] = @ + 1]
                              ELSE s2
                    IN IF s3.currentIndex[n] >= len
                       THEN Return(ResetChildren([s3 EXCEPT !.currentIndex[n] = 0], children(n), 1),
                                   n, "Success")
                       ELSE Return(s3, n, "Running")

\* SelectorUpdate changed to give up at the first failed child
SelectorUpdateFailFast(s, n, env) ==
  LET s1 == ProcessStateChanges(s, n)
      len == Len(children(n))
  IN IF s1.isInterrupted[n] \/ len = 0
     THEN Return([s1 EXCEPT !.currentIndex[n] = 0], n, "Failure")
     ELSE IF s1.currentIndex[n] >= len THEN Return(s1, n, "Throw")
     ELSE LET r == Update(s1, children(n)[s1.currentIndex[n] + 1], env)
              s2 == r.st
          IN CASE r.res = "Throw" -> Return(s2, n, "Throw")
               [] r.res = "Success" ->
                    Return(ResetChildren([s2 EXCEPT !.currentIndex[n] = 0], children(n), 1),
                           n, "Success")
               [] r.res = "Failure" ->
                    Return(ResetChildren([s2 EXCEPT !.currentIndex[n] = 0], children(n), 1),
                           n, "Failure")
               [] OTHER -> Return(s2, n, "Running")

\* SelectorUpdate changed to leave the cursor past the last child when all have failed
SelectorUpdateNoWrap(s, n, env) ==
  LET s1 == ProcessStateChanges(s, n)
      len == Len(children(n))
  IN IF s1.isInterrupted[n] \/ len = 0
     THEN Return([s1 EXCEPT !.currentIndex[n] = 0], n, "Failure")
     ELSE IF s1.currentIndex[n] >= len THEN Return(s1, n, "Throw")
     ELSE LET r == Update(s1, children(n)[s1.currentIndex[n] + 1], env)
              s2 == r.st
          IN CASE r.res = "Throw" -> Return(s2, n, "Throw")
               [] r.res = "Success" ->
                    Return(ResetChildren([s2 EXCEPT !.currentIndex[n] = 0], children(n), 1),
                           n, "Success")
               [] OTHER ->
                    LET s3 == IF r.res = "Failure"
                              THEN [s2 EXCEPT !.currentIndex[n] = @ + 1]
                              ELSE s2
                    IN IF s3.currentIndex[n] >= len
                       THEN Return(ResetChildren(s3, children(n), 1), n, "Failure")
                       ELSE Return(s3, n, "Running")

\* SelectorUpdate changed to drop the interruption once it has answered Failure
SelectorUpdateClearsInterrupt(s, n, env) ==
  LET s1 == ProcessStateChanges(s, n)
      len == Len(children(n))
  IN IF s1.isInterrupted[n] \/ len = 0
     THEN Return([s1 EXCEPT !.currentIndex[n] = 0, !.isInterrupted[n] = FALSE], n, "Failure")
     ELSE IF s1.currentIndex[n] >= len THEN Return(s1, n, "Throw")
     ELSE LET r == Update(s1, children(n)[s1.currentIndex[n] + 1], env)
              s2 == r.st
          IN CASE r.res = "Throw" -> Return(s2, n, "Throw")
               [] r.res = "Success" ->
                    Return(ResetChildren([s2 EXCEPT !.currentIndex[n] = 0], children(n), 1),
                           n, "Success")
               [] OTHER ->
                    LET s3 == IF r.res = "Failure"
                              THEN [s2 EXCEPT !.currentIndex[n] = @ + 1]
                              ELSE s2
                    IN IF s3.currentIndex[n] >= len
                       THEN Return(ResetChildren([s3 EXCEPT !.currentIndex[n] = 0], children(n), 1),
                                   n, "Failure")
                       ELSE Return(s3, n, "Running")

\* SelectorNode.update
SelectorUpdate(s, n, env) ==
  LET s1 == ProcessStateChanges(s, n)
      len == Len(children(n))
  IN IF s1.isInterrupted[n] \/ len = 0
     THEN Return([s1 EXCEPT !.currentIndex[n] = 0], n, "Failure")
     ELSE IF s1.currentIndex[n] >= len THEN Return(s1, n, "Throw")
     ELSE LET r == Update(s1, children(n)[s1.currentIndex[n] + 1], env)
              s2 == r.st
          IN CASE r.res = "Throw" -> Return(s2, n, "Throw")
               [] r.res = "Success" ->
                    Return(ResetChildren([s2 EXCEPT !.currentIndex[n] = 0], children(n), 1),
                           n, "Success")
               [] OTHER ->
                    LET s3 == IF r.res = "Failure"
                              THEN [s2 EXCEPT !.currentIndex[n] = @ + 1]
                              ELSE s2
                    IN IF s3.currentIndex[n] >= len
                       THEN Return(ResetChildren([s3 EXCEPT !.currentIndex[n] = 0], children(n), 1),
                                   n, "Failure")
                       ELSE Return(s3, n, "Running")

\* InverterUpdate changed to pass a child Failure through
InverterUpdatePassesFailure(s, n, env) ==
  LET s1 == ProcessStateChanges(s, n)
  IN IF s1.isInterrupted[n] \/ child(n) = 0 THEN Return(s1, n, "Failure")
     ELSE LET r == Update(s1, child(n), env)
          IN CASE r.res = "Success" -> Return(r.st, n, "Failure")
               [] OTHER -> Return(r.st, n, r.res)

\* InverterNode.update
InverterUpdate(s, n, env) ==
  LET s1 == ProcessStateChanges(s, n)
  IN IF s1.isInterrupted[n] \/ child(n) = 0 THEN Return(s1, n, "Failure")
     ELSE LET r == Update(s1, child(n), env)
          IN CASE r.res = "Success" -> Return(r.st, n, "Failure")
               [] r.res = "Failure" -> Return(r.st, n, "Success")
               [] OTHER -> Return(r.st, n, r.res)

\* RepeaterUpdate changed to compare with > instead of >=
RepeaterUpdateOneMore(s, n, env) ==
  LET s1 == ProcessStateChanges(s, n)
  IN IF child(n) = 0 THEN Return(s1, n, "Failure")
     ELSE IF s1.isInterrupted[n] THEN Return(s1, n, "Failure")
     ELSE LET r == Update(s1, child(n), env)
              s2 == r.st
          IN IF r.res = "Success"
             THEN LET s3 == [s2 EXCEPT !.currentCount[n] = @ + 1]
                  IN IF times(n) # 0 /\ s3.currentCount[n] > times(n)
                     THEN Return([s3 EXCEPT !.currentCount[n] = 0], n, "Success")
                     ELSE Return(OnReset(s3, child(n)), n, "Running")
             ELSE Return(s2, n, r.res)

\* RepeaterUpdate changed to take a missing count as a count of 1
RepeaterUpdateDefaultsToOne(s, n, env) ==
  LET s1 == ProcessStateChanges(s, n)
      count == IF times(n) = 0 THEN 1 ELSE times(n)
  IN IF child(n) = 0 THEN Return(s1, n, "Failure")
     ELSE IF s1.isInterrupted[n] THEN Return(s1, n, "Failure")
     ELSE LET r == Update(s1, child(n), env)
              s2 == r.st
          IN IF r.res = "Success"
             THEN LET s3 == [s2 EXCEPT !.currentCount[n] = @ + 1]
                  IN IF s3.currentCount[n] >= count
                     THEN Return([s3 EXCEPT !.currentCount[n] = 0], n, "Success")
                     ELSE Return(OnReset(s3, child(n)), n, "Running")
             ELSE Return(s2, n, r.res)

\* RepeaterNode.update
RepeaterUpdate(s, n, env) ==
  LET s1 == ProcessStateChanges(s, n)
  IN IF child(n) = 0 THEN Return(s1, n, "Failure")
     ELSE IF s1.isInterrupted[n] THEN Return(s1, n, "Failure")
     ELSE LET r == Update(s1, child(n), env)
              s2 == r.st
          IN IF r.res = "Success"
             THEN LET s3 == [s2 EXCEPT !.currentCount[n] = @ + 1]
                  IN IF times(n) # 0 /\ s3.currentCount[n] >= times(n)
                     THEN Return([s3 EXCEPT !.currentCount[n] = 0], n, "Success")
                     ELSE Return(OnReset(s3, child(n)), n, "Running")
             ELSE Return(s2, n, r.res)

\* node.update(engine, elapsed), dispatched on the node's class
Update(s, n, env) ==
  CASE kind(n) = "Sequence" -> SequenceUpdate(s, n, env)
    [] kind(n) = "Selector" -> SelectorUpdate(s, n, env)
    [] kind(n) = "Action" -> ActionUpdate(s, n, env)
    [] kind(n) = "Condition" -> ConditionUpdate(s, n, env)
    [] kind(n) = "Inverter" -> InverterUpdate(s, n, env)
    [] OTHER -> RepeaterUpdate(s, n, env)

\* ------------------------------------------------------------------------
\* Lib engine (claudeBT.ts): tree shapes
\* ------------------------------------------------------------------------

\* a Lib node: class, children, decorator child (0: none), RepeatNode.repeatCount,
\* the requiredSuccesses argument of the ParallelNode constructor (-1: left out),
\* WaitNode.waitTime
LibNode(k, cs, c, rc, rs, wt) ==
  [kind |-> k, children |-> cs, child |-> c, repeatCount |-> rc,
   requiredSuccesses |-> rs, waitTime |-> wt]

LibLeaf(k) == LibNode(k, <<>>, 0, -1, -1, 0)

LibWait(wt) == LibNode("Wait", <<>>, 0, -1, -1, wt)

LibComposite(k, cs) == LibNode(k, cs, 0, -1, -1, 0)

LibDecorator(k, c) == LibNode(k, <<>>, c, -1, -1, 0)

\* the tree of a component that has just been constructed: new RootNode("root", ...)
EmptyRoot == << LibComposite("Root", <<>>) >>

\* Root [ Sequence [Condition, Wait], Selector [Condition, Wait] ]
LibTree1 ==
  << LibComposite("Root", <<2, 5>>),
     LibComposite("Sequence", <<3, 4>>), LibLeaf("Condition"), LibWait(1),
     LibComposite("Selector", <<6, 7>>), LibLeaf("Condition"), LibWait(2) >>

\* Root [ Parallel(rs) [Condition, Wait, Condition] ]
LibTree2(rs) ==
  << LibComposite("Root", <<2>>),
     LibNode("Parallel", <<3, 4, 5>>, 0, -1, rs, 0),
     LibLeaf("Condition"), LibWait(2), LibLeaf("Condition") >>

\* Root [ Sequence [ Parallel [Condition, Wait], Condition ] ]
LibTree5 ==
  << LibComposite("Root", <<2>>),
     LibComposite("Sequence", <<3, 6>>),
     LibComposite("Parallel", <<4, 5>>), LibLeaf("Condition"), LibWait(2),
     LibLeaf("Condition") >>

\* Root [ Wait, Condition ]
LibTree6 == << LibComposite("Root", <<2, 3>>), LibWait(2), LibLeaf("Condition") >>

\* Root [ Selector [Condition, Condition, Wait] ]
LibTree7 ==
  << LibComposite("Root", <<2>>), LibComposite("Selector", <<3, 4, 5>>),
     LibLeaf("Condition"), LibLeaf("Condition"), LibWait(2) >>

\* Root [ Repeat(rc) ( Sequence [Condition, Wait] ) ]
LibTree3(rc) ==
  << LibComposite("Root", <<2>>),
     LibNode("Repeat", <<>>, 3, rc, -1, 0),
     LibComposite("Sequence", <<4, 5>>), LibLeaf("Condition"), LibWait(1) >>

\* Root [ Inverter (Condition), Succeeder (Wait), Inverter () ]
LibTree4 ==
  << LibComposite("Root", <<2, 4, 6>>),
     LibDecorator("Inverter", 3), LibLeaf("Condition"),
     LibDecorator("Succeeder", 5), LibWait(2),
     LibDecorator("Inverter", 0) >>

LibTrees ==
  {LibTree1, LibTree4, LibTree5, LibTree6, LibTree7}
    \cup {LibTree2(rs) : rs \in {-1, 0, 1, 2}}
    \cup {LibTree3(rc) : rc \in {-1} \cup 1..MaxTimes}

\* the fields that reset() writes, as the constructors of tree t leave them
LibGround(t) ==
  [ status |-> [n \in DOMAIN t |-> "free"],
    currentIndex |-> [n \in DOMAIN t |-> 0],
    currentCount |-> [n \in DOMAIN t |-> 0],
    childrenStatus |-> [n \in DOMAIN t |->
                          IF t[n].kind = "Parallel"
                          THEN [i \in 1..Len(t[n].children) |-> "running"]
                          ELSE << >>],
    isComplete |-> [n \in DOMAIN t |-> FALSE] ]

\* the fields of every node of tree t after construction, with an empty log
LibStart(t) ==
  [ tree |-> t,
    status |-> LibGround(t).status,
    isInterrupted |-> [n \in DOMAIN t |-> FALSE],
    currentIndex |-> LibGround(t).currentIndex,
    currentCount |-> LibGround(t).currentCount,
    childrenStatus |-> LibGround(t).childrenStatus,
    isComplete |-> LibGround(t).isComplete,
    elapsedTime |-> [n \in DOMAIN t |-> 0],
    ret |-> [n \in DOMAIN t |-> "none"],
    updates |-> [n \in DOMAIN t |-> 0],
    actions |-> [n \in DOMAIN t |-> 0],
    asked |-> [n \in DOMAIN t |-> 0],
    over |-> [n \in DOMAIN t |-> FALSE],
    handled |-> [n \in DOMAIN t |-> FALSE],
    recorded |-> [n \in DOMAIN t |-> << >>],
    pre |-> 0,
    preOut |-> "true",
    checks |-> 0,
    escaped |-> FALSE,
    thrown |-> FALSE,
    caught |-> LibGround(t) ]

LibNodes == DOMAIN lib.tree

LibKind(n) == lib.tree[n].kind

LibChildren(n) == lib.tree[n].children

LibChild(n) == lib.tree[n].child

\* the fields of s that reset() writes
LibFields(s) ==
  [ status |-> s.status, currentIndex |-> s.currentIndex, currentCount |-> s.currentCount,
    childrenStatus |-> s.childrenStatus, isComplete |-> s.isComplete ]

\* ------------------------------------------------------------------------
\* Lib engine: what the host and the user's overrides do in one tick
\* ------------------------------------------------------------------------

\* yes: the ConditionNodes whose function returns true; pre, preOut: the node
\* whose overridden precondition() returns false or raises (0: none does);
\* budget: the clock checks that find the time within maxExecutionTimeMs
\* (MaxBudget: all of them)
LibEnv(yes, pre, preOut, budget) == [yes |-> yes, pre |-> pre, preOut |-> preOut, budget |-> budget]

\* node.precondition()
Precondition(n, e) == IF e.pre = n THEN e.preOut ELSE "true"

\* performance.now() - startTime > maxExecutionTimeMs, the clock never going back
Over(s, e) == e.budget < MaxBudget /\ s.checks >= e.budget

\* one more reading of the clock, by node n; the log keeps whether it found the time over
Checked(s, n, e) == [s EXCEPT !.checks = @ + 1, !.over[n] = @ \/ Over(s, e)]

\* the log after a parent has called c.precondition()
Ask(s, c) == [s EXCEPT !.asked[c] = @ + 1]

\* what update returns to its caller, logged
LibReturn(s, n, r) == [st |-> [s EXCEPT !.ret[n] = r], res |-> r]

\* ------------------------------------------------------------------------
\* Lib engine: reset, interrupt
\* ------------------------------------------------------------------------

RECURSIVE LibReset(_, _)
RECURSIVE LibResetEach(_, _, _)

\* for (const child of this.children) child.reset()
LibResetEach(s, cs, i) ==
  IF i > Len(cs) THEN s ELSE LibResetEach(LibReset(s, cs[i]), cs, i + 1)

\* LibReset changed so that a composite or decorator resets itself only
LibResetOwnOnly(s, n) ==
  LET s0 == [s EXCEPT !.status[n] = "free"]
  IN CASE LibKind(n) \in {"Sequence", "Selector"} -> [s0 EXCEPT !.currentIndex[n] = 0]
       [] LibKind(n) = "Parallel" ->
            [s0 EXCEPT !.childrenStatus[n] = [i \in 1..Len(LibChildren(n)) |-> "running"]]
       [] LibKind(n) = "Repeat" -> [s0 EXCEPT !.currentCount[n] = 0]
       [] LibKind(n) = "Wait" -> [s0 EXCEPT !.isComplete[n] = FALSE, !.elapsedTime[n] = 0]
       [] OTHER -> s0

\* LibReset changed so that reset() also clears the interrupt flag
LibResetClearsInterrupt(s, n) ==
  LET s0 == [s EXCEPT !.status[n] = "free", !.isInterrupted[n] = FALSE]
      below == IF LibChild(n) # 0 THEN LibReset(s0, LibChild(n))
               ELSE LibResetEach(s0, LibChildren(n), 1)
  IN CASE LibKind(n) \in {"Sequence", "Selector"} -> [below EXCEPT !.currentIndex[n] = 0]
       [] LibKind(n) = "Parallel" ->
            [below EXCEPT !.childrenStatus[n] = [i \in 1..Len(LibChildren(n)) |-> "running"]]
       [] LibKind(n) = "Repeat" -> [below EXCEPT !.currentCount[n] = 0]
       [] LibKind(n) = "Wait" -> [below EXCEPT !.isComplete[n] = FALSE, !.elapsedTime[n] = 0]
       [] OTHER -> below

\* reset() of the node's class
LibReset(s, n) ==
  LET s0 == [s EXCEPT !.status[n] = "free"]
      below == IF LibChild(n) # 0 THEN LibReset(s0, LibChild(n))
               ELSE LibResetEach(s0, LibChildren(n), 1)
  IN CASE LibKind(n) \in {"Sequence", "Selector"} -> [below EXCEPT !.currentIndex[n] = 0]
       [] LibKind(n) = "Parallel" ->
            [below EXCEPT !.childrenStatus[n] = [i \in 1..Len(LibChildren(n)) |-> "running"]]
       [] LibKind(n) = "Repeat" -> [below EXCEPT !.currentCount[n] = 0]
       [] LibKind(n) = "Wait" -> [below EXCEPT !.isComplete[n] = FALSE, !.elapsedTime[n] = 0]
       [] OTHER -> below

RECURSIVE LibInterruptNode(_, _)
RECURSIVE LibInterruptEach(_, _, _)

\* for (const child of this.children) child.interrupt(data)
LibInterruptEach(s, cs, i) ==
  IF i > Len(cs) THEN s ELSE LibInterruptEach(LibInterruptNode(s, cs[i]), cs, i + 1)

\* interrupt() of the node's class
LibInterruptNode(s, n) ==
  LET s0 == [s EXCEPT !.isInterrupted[n] = TRUE]
  IN IF LibChild(n) # 0 THEN LibInterruptNode(s0, LibChild(n))
     ELSE LibInterruptEach(s0, LibChildren(n), 1)

\* BehaviorNode.handleInterrupt: res "none" stands for undefined
LibHandleInterrupt(s, n) ==
  IF s.isInterrupted[n]
  THEN [st |-> LibReset([s EXCEPT !.isInterrupted[n] = FALSE, !.handled[n] = TRUE], n),
        res |-> "failure"]
  ELSE [st |-> s, res |-> "none"]

\* ------------------------------------------------------------------------
\* Lib engine: update
\* ------------------------------------------------------------------------

RECURSIVE LibUpdate(_, _, _)

\* WaitNode.btAction
BtAction(s, n) == [s EXCEPT !.elapsedTime[n] = 0, !.actions[n] = @ + 1]

\* BehaviorNode.update, the part every leaf class inherits
BehaviorNodeUpdate(s, n, e) ==
  LET s1 == Checked(s, n, e)
      h == LibHandleInterrupt(s1, n)
  IN IF Over(s, e) THEN [st |-> s1, res |-> "running"]
     ELSE IF h.res # "none" THEN h
     ELSE IF s1.status[n] = "busy"
          THEN IF s1.isComplete[n]
               THEN [st |-> [s1 EXCEPT !.status[n] = "complete"], res |-> "success"]
               ELSE [st |-> s1, res |-> "running"]
     ELSE IF s1.status[n] = "complete" THEN [st |-> s1, res |-> "success"]
     ELSE CASE Precondition(n, e) = "throw" -> [st |-> s1, res |-> "throw"]
            [] Precondition(n, e) = "false" -> [st |-> s1, res |-> "failure"]
            [] OTHER ->
                 LET s2 == BtAction([s1 EXCEPT !.status[n] = "busy"], n)
                 IN IF s2.isComplete[n]
                    THEN [st |-> [s2 EXCEPT !.status[n] = "complete"], res |-> "success"]
                    ELSE [st |-> s2, res |-> "running"]

\* WaitNode.update, delta being one unit of time
WaitUpdate(s, n, e) ==
  LET r == BehaviorNodeUpdate(s, n, e)
  IN IF r.res # "running" \/ r.st.status[n] # "busy" THEN LibReturn(r.st, n, r.res)
     ELSE LET s1 == [r.st EXCEPT !.elapsedTime[n] = @ + 1]
          IN IF s1.elapsedTime[n] >= lib.tree[n].waitTime
             THEN LibReturn([s1 EXCEPT !.isComplete[n] = TRUE], n, "success")
             ELSE LibReturn(s1, n, "running")

\* ConditionNode.update of the Lib engine
LibConditionUpdate(s, n, e) ==
  LET h == LibHandleInterrupt(s, n)
  IN IF h.res # "none" THEN LibReturn(h.st, n, h.res)
     ELSE LibReturn(s, n, IF n \in e.yes THEN "success" ELSE "failure")

RECURSIVE RootLoop(_, _, _, _)

\* the loop of RootNode.update from child i on
RootLoop(s, n, e, i) ==
  IF i > Len(LibChildren(n)) THEN LibReturn(s, n, "failure")
  ELSE LET c == LibChildren(n)[i]
           s1 == Checked(s, n, e)
       IN IF Over(s, e) THEN LibReturn(s1, n, "running")
          ELSE CASE Precondition(c, e) = "throw" -> LibReturn(Ask(s1, c), n, "throw")
                 [] Precondition(c, e) = "false" -> RootLoop(Ask(s1, c), n, e, i + 1)
                 [] OTHER ->
                      LET r == LibUpdate(Ask(s1, c), c, e)
                      IN IF r.res # "failure" THEN LibReturn(r.st, n, r.res)
                         ELSE RootLoop(r.st, n, e, i + 1)

\* RootNode.update
RootNodeUpdate(s, n, e) == RootLoop(s, n, e, 1)

\* SequenceNode.update of the Lib engine
LibSequenceUpdate(s, n, e) ==
  LET h == LibHandleInterrupt(s, n)
      s1 == Checked(s, n, e)
      cs == LibChildren(n)
  IN IF h.res # "none" THEN LibReturn(h.st, n, h.res)
     ELSE IF Over(s, e) THEN LibReturn(s1, n, "running")
     ELSE IF Len(cs) = 0 THEN LibReturn(s1, n, "success")
     ELSE IF s1.currentIndex[n] >= Len(cs) THEN LibReturn(LibReset(s1, n), n, "success")
     ELSE LET c == cs[s1.currentIndex[n] + 1]
          IN CASE Precondition(c, e) = "throw" -> LibReturn(Ask(s1, c), n, "throw")
               [] Precondition(c, e) = "false" -> LibReturn(LibReset(Ask(s1, c), n), n, "failure")
               [] OTHER ->
                    LET r == LibUpdate(Ask(s1, c), c, e)
                        s2 == [r.st EXCEPT !.currentIndex[n] = @ + 1]
                    IN CASE r.res = "throw" -> LibReturn(r.st, n, "throw")
                         [] r.res = "running" -> LibReturn(r.st, n, "running")
                         [] r.res = "failure" -> LibReturn(LibReset(r.st, n), n, "failure")
                         [] OTHER ->
                              IF s2.currentIndex[n] >= Len(cs)
                              THEN LibReturn(LibReset(s2, n), n, "success")
                              ELSE LibReturn(s2, n, "running")

RECURSIVE SelectorLoop(_, _, _)

\* the loop left with Running once a child has failed or been skipped
SelectorLoopOnePerTick(s, n, e) ==
  IF s.currentIndex[n] >= Len(LibChildren(n)) THEN LibReturn(LibReset(s, n), n, "failure")
  ELSE LET c == LibChildren(n)[s.currentIndex[n] + 1]
       IN CASE Precondition(c, e) = "throw" -> LibReturn(Ask(s, c), n, "throw")
            [] Precondition(c, e) = "false" ->
                 LibReturn([Ask(s, c) EXCEPT !.currentIndex[n] = @ + 1], n, "running")
            [] OTHER ->
                 LET r == LibUpdate(Ask(s, c), c, e)
                 IN CASE r.res = "throw" -> LibReturn(r.st, n, "throw")
                      [] r.res = "running" -> LibReturn(r.st, n, "running")
                      [] r.res = "success" -> LibReturn(LibReset(r.st, n), n, "success")
                      [] OTHER -> LibReturn([r.st EXCEPT !.currentIndex[n] = @ + 1], n, "running")

\* the while loop of SelectorNode.update
SelectorLoop(s, n, e) ==
  IF s.currentIndex[n] >= Len(LibChildren(n)) THEN LibReturn(LibReset(s, n), n, "failure")
  ELSE LET c == LibChildren(n)[s.currentIndex[n] + 1]
       IN CASE Precondition(c, e) = "throw" -> LibReturn(Ask(s, c), n, "throw")
            [] Precondition(c, e) = "false" ->
                 SelectorLoop([Ask(s, c) EXCEPT !.currentIndex[n] = @ + 1], n, e)
            [] OTHER ->
                 LET r == LibUpdate(Ask(s, c), c, e)
                 IN CASE r.res = "throw" -> LibReturn(r.st, n, "throw")
                      [] r.res = "running" -> LibReturn(r.st, n, "running")
                      [] r.res = "success" -> LibReturn(LibReset(r.st, n), n, "success")
                      [] OTHER -> SelectorLoop([r.st EXCEPT !.currentIndex[n] = @ + 1], n, e)

\* SelectorNode.update of the Lib engine
LibSelectorUpdate(s, n, e) ==
  LET h == LibHandleInterrupt(s, n)
      s1 == Checked(s, n, e)
  IN IF h.res # "none" THEN LibReturn(h.st, n, h.res)
     ELSE IF Over(s, e) THEN LibReturn(s1, n, "running")
     ELSE IF Len(LibChildren(n)) = 0 THEN LibReturn(s1, n, "failure")
     ELSE SelectorLoop(s1, n, e)

\* ParallelNode constructor: this.requiredSuccesses = requiredSuccesses || -1, the
\* argument a being -1 when it is left out
ParallelRequired(a) == IF a = 0 THEN -1 ELSE a

\* how many of the recorded statuses are r
CountOf(st, r) == Cardinality({i \in 1..Len(st) : st[i] = r})

\* ParallelNode.update after its loop: the thresholds
ParallelVerdict(s, n, stillRunning) ==
  LET len == Len(LibChildren(n))
      rs == ParallelRequired(lib.tree[n].requiredSuccesses)
      requiredSuccesses == IF rs < 0 THEN len ELSE rs
      successCount == CountOf(s.childrenStatus[n], "success")
      failureCount == CountOf(s.childrenStatus[n], "failure")
      s0 == [s EXCEPT !.recorded[n] = s.childrenStatus[n]]
  IN IF successCount >= requiredSuccesses THEN LibReturn(LibReset(s0, n), n, "success")
     ELSE IF len - failureCount < requiredSuccesses THEN LibReturn(LibReset(s0, n), n, "failure")
     ELSE IF stillRunning THEN LibReturn(s0, n, "running")
     ELSE LibReturn(LibReset(s0, n), n, "failure")

RECURSIVE ParallelLoop(_, _, _, _, _)

\* the loop without the test of lines 527-535: every child is processed again
ParallelLoopNoSkip(s, n, e, i, stillRunning) ==
  IF i > Len(LibChildren(n)) THEN ParallelVerdict(s, n, stillRunning)
  ELSE LET c == LibChildren(n)[i]
           s1 == Checked(s, n, e)
       IN IF Over(s, e) THEN LibReturn(s1, n, "running")
          ELSE CASE Precondition(c, e) = "throw" -> LibReturn(Ask(s1, c), n, "throw")
                 [] Precondition(c, e) = "false" ->
                      ParallelLoop([Ask(s1, c) EXCEPT !.childrenStatus[n][i] = "failure"], n, e,
                                   i + 1, stillRunning)
                 [] OTHER ->
                      LET r == LibUpdate(Ask(s1, c), c, e)
                      IN IF r.res = "throw" THEN LibReturn(r.st, n, "throw")
                         ELSE ParallelLoop([r.st EXCEPT !.childrenStatus[n][i] = r.res], n, e,
                                           i + 1, stillRunning \/ r.res = "running")

\* the for loop of ParallelNode.update from child i on
ParallelLoop(s, n, e, i, stillRunning) ==
  IF i > Len(LibChildren(n)) THEN ParallelVerdict(s, n, stillRunning)
  ELSE LET c == LibChildren(n)[i]
           s1 == Checked(s, n, e)
       IN IF Over(s, e) THEN LibReturn(s1, n, "running")
          ELSE IF s1.childrenStatus[n][i] # "running" THEN ParallelLoop(s1, n, e, i + 1, stillRunning)
          ELSE CASE Precondition(c, e) = "throw" -> LibReturn(Ask(s1, c), n, "throw")
                 [] Precondition(c, e) = "false" ->
                      ParallelLoop([Ask(s1, c) EXCEPT !.childrenStatus[n][i] = "failure"], n, e,
                                   i + 1, stillRunning)
                 [] OTHER ->
                      LET r == LibUpdate(Ask(s1, c), c, e)
                      IN IF r.res = "throw" THEN LibReturn(r.st, n, "throw")
                         ELSE ParallelLoop([r.st EXCEPT !.childrenStatus[n][i] = r.res], n, e,
                                           i + 1, stillRunning \/ r.res = "running")

\* ParallelNode.update
ParallelUpdate(s, n, e) ==
  LET h == LibHandleInterrupt(s, n)
  IN IF h.res # "none" THEN LibReturn(h.st, n, h.res)
     ELSE ParallelLoop(s, n, e, 1, FALSE)

\* an Inverter that updates its child without calling child.precondition()
LibInverterUpdateUnasked(s, n, e) ==
  LET h == LibHandleInterrupt(s, n)
      s1 == Checked(s, n, e)
  IN IF h.res # "none" THEN LibReturn(h.st, n, h.res)
     ELSE IF LibChild(n) = 0 THEN LibReturn(s, n, "failure")
     ELSE IF Over(s, e) THEN LibReturn(s1, n, "running")
     ELSE LET r == LibUpdate(s1, LibChild(n), e)
          IN CASE r.res = "success" -> LibReturn(r.st, n, "failure")
               [] r.res = "failure" -> LibReturn(r.st, n, "success")
               [] OTHER -> LibReturn(r.st, n, r.res)

\* InverterNode.update of the Lib engine
LibInverterUpdate(s, n, e) ==
  LET h == LibHandleInterrupt(s, n)
      s1 == Checked(s, n, e)
  IN IF h.res # "none" THEN LibReturn(h.st, n, h.res)
     ELSE IF LibChild(n) = 0 THEN LibReturn(s, n, "failure")
     ELSE IF Over(s, e) THEN LibReturn(s1, n, "running")
     ELSE CASE Precondition(LibChild(n), e) = "throw" -> LibReturn(Ask(s1, LibChild(n)), n, "throw")
            [] Precondition(LibChild(n), e) = "false" ->
                 LibReturn(Ask(s1, LibChild(n)), n, "success")
            [] OTHER ->
                 LET r == LibUpdate(Ask(s1, LibChild(n)), LibChild(n), e)
                 IN CASE r.res = "success" -> LibReturn(r.st, n, "failure")
                      [] r.res = "failure" -> LibReturn(r.st, n, "success")
                      [] OTHER -> LibReturn(r.st, n, r.res)

\* RepeatNode.update
RepeatUpdate(s, n, e) ==
  LET h == LibHandleInterrupt(s, n)
      s1 == Checked(s, n, e)
      rc == lib.tree[n].repeatCount
  IN IF h.res # "none" THEN LibReturn(h.st, n, h.res)
     ELSE IF LibChild(n) = 0 THEN LibReturn(s, n, "failure")
     ELSE IF Over(s, e) THEN LibReturn(s1, n, "running")
     ELSE CASE Precondition(LibChild(n), e) = "throw" -> LibReturn(Ask(s1, LibChild(n)), n, "throw")
            [] Precondition(LibChild(n), e) = "false" ->
                 LibReturn(LibReset(Ask(s1, LibChild(n)), n), n, "failure")
            [] OTHER ->
                 LET r == LibUpdate(Ask(s1, LibChild(n)), LibChild(n), e)
                     s2 == LibReset([r.st EXCEPT !.currentCount[n] = @ + 1], LibChild(n))
                 IN CASE r.res = "throw" -> LibReturn(r.st, n, "throw")
                      [] r.res = "running" -> LibReturn(r.st, n, "running")
                      [] r.res = "failure" -> LibReturn(LibReset(r.st, n), n, "failure")
                      [] OTHER ->
                           IF rc > 0 /\ s2.currentCount[n] >= rc
                           THEN LibReturn(LibReset(s2, n), n, "success")
                           ELSE LibReturn(s2, n, "running")

\* SucceederNode.update
SucceederUpdate(s, n, e) ==
  LET h == LibHandleInterrupt(s, n)
      s1 == Checked(s, n, e)
  IN IF h.res # "none" THEN LibReturn(h.st, n, h.res)
     ELSE IF LibChild(n) = 0 THEN LibReturn(s, n, "success")
     ELSE IF Over(s, e) THEN LibReturn(s1, n, "running")
     ELSE LET r == LibUpdate(s1, LibChild(n), e)
          IN IF r.res \in {"running", "throw"} THEN LibReturn(r.st, n, r.res)
             ELSE LibReturn(r.st, n, "success")

\* node.update(engine, delta, startTime, maxExecutionTimeMs), dispatched on the node's class
LibUpdate(s, n, e) ==
  LET s0 == [s EXCEPT !.updates[n] = @ + 1]
  IN CASE LibKind(n) = "Root" -> RootNodeUpdate(s0, n, e)
       [] LibKind(n) = "Sequence" -> LibSequenceUpdate(s0, n, e)
       [] LibKind(n) = "Selector" -> LibSelectorUpdate(s0, n, e)
       [] LibKind(n) = "Parallel" -> ParallelUpdate(s0, n, e)
       [] LibKind(n) = "Inverter" -> LibInverterUpdate(s0, n, e)
       [] LibKind(n) = "Repeat" -> RepeatUpdate(s0, n, e)
       [] LibKind(n) = "Succeeder" -> SucceederUpdate(s0, n, e)
       [] LibKind(n) = "Wait" -> WaitUpdate(s0, n, e)
       [] OTHER -> LibConditionUpdate(s0, n, e)

\* the try block of BehaviorTreeComponent.update and its catch: root.reset()
ComponentUpdate(s, e) ==
  \* the log keeps the node whose precondition() was not true if the walk came to that node
  LET r == LibUpdate(s, 1, e)
      came == e.pre # 0 /\ (r.st.asked[e.pre] > 0 \/ r.st.updates[e.pre] > 0)
      logged == [r.st EXCEPT !.pre = IF came THEN e.pre ELSE 0,
                             !.preOut = IF came THEN e.preOut ELSE "true"]
  IN IF r.res = "throw"
     THEN [LibReset(logged, 1) EXCEPT !.escaped = TRUE, !.thrown = FALSE,
                                      !.caught = LibFields(r.st)]
     ELSE [logged EXCEPT !.escaped = FALSE, !.thrown = FALSE, !.caught = LibGround(lib.tree)]

\* ------------------------------------------------------------------------
\* The controller
\* ------------------------------------------------------------------------

PredicateOutcomes == {"true", "false"}

FaultyOutcomes == PredicateOutcomes \cup {"throw"}

Env(out, done, sig) == [out |-> out, done |-> done, sig |-> sig]

NoEnv == Env("true", FALSE, "none")

\* no addChild call has been made
NoCall == [parent |-> 0, child |-> 0, error |-> "none"]

\* the tree was not assembled through a TreeBuilder
NoBuilder == [chain |-> << >>, scope |-> << >>, built |-> {}]

Init ==
  /\ tree \in Trees
  /\ subscribed = DOMAIN tree
  /\ needsInterrupt = [n \in DOMAIN tree |-> FALSE]
  /\ needsReset = [n \in DOMAIN tree |-> FALSE]
  /\ isInterrupted = [n \in DOMAIN tree |-> FALSE]
  /\ currentIndex = [n \in DOMAIN tree |-> 0]
  /\ hasStarted = [n \in DOMAIN tree |-> FALSE]
  /\ currentCount = [n \in DOMAIN tree |-> 0]
  /\ result = [n \in DOMAIN tree |-> "None"]
  /\ runCalls = [n \in DOMAIN tree |-> 0]
  /\ clearCalls = [n \in DOMAIN tree |-> 0]
  /\ pc = "idle"
  /\ tickEnv = NoEnv
  /\ intrSince = FALSE
  /\ resetSince = FALSE
  /\ streak = [n \in DOMAIN tree |-> 0]
  /\ runsSince = [n \in DOMAIN tree |-> 0]
  /\ prior = Fields
  /\ addCall = NoCall
  /\ builder = NoBuilder
  /\ lib = LibStart(EmptyRoot)

\* the node fields and the call log after a step
Store(s) ==
  /\ needsInterrupt' = s.needsInterrupt
  /\ needsReset' = s.needsReset
  /\ isInterrupted' = s.isInterrupted
  /\ currentIndex' = s.currentIndex
  /\ hasStarted' = s.hasStarted
  /\ currentCount' = s.currentCount
  /\ result' = s.result
  /\ runCalls' = s.runCalls
  /\ clearCalls' = s.clearCalls

\* BehaviorTreeComponent.interrupt(), called by the host between ticks
Interrupt ==
  /\ pc = "idle"
  /\ Store(Emit(State, "interrupt"))
  /\ intrSince' = TRUE
  /\ UNCHANGED << tree, subscribed, pc, tickEnv, resetSince, streak, runsSince, prior, addCall, builder, lib >>

\* BehaviorTreeComponent.reset(), called by the host between ticks
Reset ==
  /\ pc = "idle"
  /\ Store(Emit(State, "reset"))
  /\ resetSince' = TRUE
  /\ UNCHANGED << tree, subscribed, pc, tickEnv, intrSince, streak, runsSince, prior, addCall, builder, lib >>

RECURSIVE Destroy(_, _)
RECURSIVE DestroyEach(_, _, _)

\* for (const child of this.children) child.destroy()
DestroyEach(sub, cs, i) ==
  IF i > Len(cs) THEN sub ELSE DestroyEach(Destroy(sub, cs[i]), cs, i + 1)

\* destroy() of the node's class: the subscriptions left on the emitter
Destroy(sub, n) ==
  LET below == CASE kind(n) \in {"Sequence", "Selector"} -> DestroyEach(sub, children(n), 1)
                 [] kind(n) \in {"Inverter", "Repeater"} /\ child(n) # 0 -> Destroy(sub, child(n))
                 [] OTHER -> sub
  IN below \ {n}

\* this.update.bind(this): every evaluation makes a new function object; k is
\* the position of the evaluation (1 in onAdd, 2 in onRemove)
Bound(k) == k

\* owner.on("preupdate", f): f joins the owner's handlers
OwnerOn(hs, f) == hs \cup {f}

\* owner.off("preupdate", f): the handler identical to f leaves the owner's handlers
OwnerOff(hs, f) == hs \ {f}

\* onRemove has run: root.destroy() took the root's listeners off the emitter
Removed == root \notin subscribed

\* the owner's "preupdate" handlers: onAdd registers one bound function, and
\* onRemove hands owner.off another one
PreupdateHandlers ==
  IF Removed THEN OwnerOff(OwnerOn({}, Bound(1)), Bound(2)) ELSE OwnerOn({}, Bound(1))

\* BehaviorTreeComponent.onRemove: root.destroy(); owner.off is handed a fresh
\* bound function, so the preupdate subscription stays and ticks go on
OnRemove ==
  /\ pc = "idle"
  /\ subscribed' = Destroy(subscribed, root)
  /\ UNCHANGED << tree, needsInterrupt, needsReset, isInterrupted, currentIndex, hasStarted,
                  currentCount, result, runCalls, clearCalls, pc, tickEnv, intrSince,
                  resetSince, streak, runsSince, prior, addCall, builder, lib >>

\* BehaviorTreeComponent.update, first phase: processTreeStateChanges(root)
Drain ==
  /\ pc = "idle"
  /\ PreupdateHandlers # {}
  /\ Store(ProcessTreeStateChanges(Fresh, root))
  /\ LET s == State'
     IN /\ streak' = [n \in Nodes |->
                        IF needsReset[n] /\ ~s.needsReset[n] THEN 0
                        ELSE IF kind(n) = "Repeater" /\ needsInterrupt[n] /\ ~s.needsInterrupt[n] THEN 0
                        ELSE streak[n]]
        /\ runsSince' = [n \in Nodes |-> IF needsReset[n] /\ ~s.needsReset[n] THEN 0 ELSE runsSince[n]]
  /\ prior' = Fields
  /\ pc' = "drained"
  /\ UNCHANGED << tree, subscribed, tickEnv, intrSince, resetSince, addCall, builder, lib >>

\* the child a composite evaluated in an update that produced log s (0: none)
Evaluated(s, n) ==
  IF \E i \in 1..Len(children(n)) : s.result[children(n)[i]] # "None"
  THEN children(n)[CHOOSE i \in 1..Len(children(n)) : s.result[children(n)[i]] # "None"]
  ELSE 0

\* streak of a Repeater after an update that produced log s
NextSuccesses(s, n) ==
  LET before == IF needsReset[n] \/ needsInterrupt[n] THEN 0 ELSE streak[n]
  IN CASE s.result[n] = "None" -> streak[n]
       [] s.result[n] = "Success" -> 0
       [] child(n) = 0 -> 0
       [] s.result[child(n)] = "None" -> 0
       [] s.result[child(n)] = "Success" -> IF before = -1 THEN -1 ELSE before + 1
       [] OTHER -> -1

\* streak of a node after an update that produced log s
NextStreak(s, n) ==
  LET before == IF needsReset[n] THEN 0 ELSE streak[n]
  IN CASE kind(n) = "Repeater" -> NextSuccesses(s, n)
       [] s.result[n] = "None" -> streak[n]
       [] s.result[n] \in {"Success", "Failure"} -> 0
       [] s.result[n] = "Throw" -> -1
       [] OTHER -> IF Evaluated(s, n) = 0 \/ before = -1 THEN -1
                   ELSE IF s.result[Evaluated(s, n)] = "Running" THEN -1
                   ELSE before + 1

\* runAction calls of an action node not yet followed by Success or a reset
NextRunsSince(s, n) ==
  LET before == IF needsReset[n] /\ s.result[n] # "None" THEN 0 ELSE runsSince[n]
  IN IF s.result[n] = "Success" THEN 0 ELSE before + s.runCalls[n]

\* BehaviorTreeComponent.update, second phase: root.update(engine, elapsed)
RootUpdate(out, done, sig) ==
  /\ pc = "drained"
  /\ Store(Update(Fresh, root, Env(out, done, sig)).st)
  /\ LET s == State'
         predicateRan == \E n \in Nodes : kind(n) = "Condition" /\ s.result[n] # "None"
         actionPolled == \E n \in Nodes : kind(n) = "Action" /\ s.result[n] \in {"Success", "Running"}
     IN /\ predicateRan \/ (out = "true" /\ sig = "none")
        /\ actionPolled \/ ~done
        /\ \A n \in Nodes : s.currentCount[n] <= MaxCount
        /\ streak' = [n \in Nodes |-> NextStreak(s, n)]
        /\ runsSince' = [n \in Nodes |-> NextRunsSince(s, n)]
  /\ tickEnv' = Env(out, done, sig)
  /\ intrSince' = (sig = "interrupt")
  /\ resetSince' = (sig = "reset")
  /\ pc' = "idle"
  /\ UNCHANGED << tree, subscribed, prior, addCall, builder, lib >>

\* a tick whose predicates return normally
Tick == \E out \in PredicateOutcomes, done \in BOOLEAN, sig \in Signals : RootUpdate(out, done, sig)

\* a tick whose predicate may raise an error
FaultyTick == \E out \in FaultyOutcomes, done \in BOOLEAN, sig \in Signals : RootUpdate(out, done, sig)

Next == Interrupt \/ Reset \/ OnRemove \/ Drain \/ Tick

Spec == Init /\ [][Next]_vars

NextFault == Interrupt \/ Reset \/ OnRemove \/ Drain \/ FaultyTick

SpecFault == Init /\ [][NextFault]_vars

\* ------------------------------------------------------------------------
\* CompositeNode.addChild on nodes that have just been constructed
\* ------------------------------------------------------------------------

\* two composites and two leaves, constructed and not yet attached
LooseNodes ==
  { << Node(k1, <<>>, 0, 0), Node(k2, <<>>, 0, 0), Leaf(l1), Leaf(l2) >> :
      k1 \in RootKinds, k2 \in RootKinds, l1 \in LeafKinds, l2 \in LeafKinds }

\* AddChild changed to push without looking for the reference in the list
AddChildNoDuplicateCheck(cs, c) ==
  IF c = 0 THEN [children |-> cs, error |-> "Child cannot be null"]
  ELSE [children |-> Append(cs, c), error |-> "none"]

\* CompositeNode.addChild: the list afterwards and the error raised, c = 0 for null
AddChild(cs, c) ==
  IF c = 0 THEN [children |-> cs, error |-> "Child cannot be null"]
  ELSE IF \E i \in 1..Len(cs) : cs[i] = c
       THEN [children |-> cs, error |-> "Child already exists in this node"]
       ELSE [children |-> Append(cs, c), error |-> "none"]

InitBuild ==
  /\ tree \in LooseNodes
  /\ subscribed = DOMAIN tree
  /\ needsInterrupt = [n \in DOMAIN tree |-> FALSE]
  /\ needsReset = [n \in DOMAIN tree |-> FALSE]
  /\ isInterrupted = [n \in DOMAIN tree |-> FALSE]
  /\ currentIndex = [n \in DOMAIN tree |-> 0]
  /\ hasStarted = [n \in DOMAIN tree |-> FALSE]
  /\ currentCount = [n \in DOMAIN tree |-> 0]
  /\ result = [n \in DOMAIN tree |-> "None"]
  /\ runCalls = [n \in DOMAIN tree |-> 0]
  /\ clearCalls = [n \in DOMAIN tree |-> 0]
  /\ pc = "idle"
  /\ tickEnv = NoEnv
  /\ intrSince = FALSE
  /\ resetSince = FALSE
  /\ streak = [n \in DOMAIN tree |-> 0]
  /\ runsSince = [n \in DOMAIN tree |-> 0]
  /\ prior = Fields
  /\ addCall = NoCall
  /\ builder = NoBuilder
  /\ lib = LibStart(EmptyRoot)

\* p.addChild(c) called by the code that assembles a tree
AddChildCall(p, c) ==
  /\ kind(p) \in {"Sequence", "Selector"}
  /\ c # p
  /\ Len(children(p)) < MaxChildren
  /\ LET r == AddChild(children(p), c)
     IN /\ tree' = [tree EXCEPT ![p].children = r.children]
        /\ addCall' = [parent |-> p, child |-> c, error |-> r.error]
  /\ UNCHANGED << subscribed, needsInterrupt, needsReset, isInterrupted, currentIndex,
                  hasStarted, currentCount, result, runCalls, clearCalls, pc, tickEnv,
                  intrSince, resetSince, streak, runsSince, prior, builder, lib >>

NextBuild == \E p \in Nodes, c \in Nodes \cup {0} : AddChildCall(p, c)

SpecBuild == InitBuild /\ [][NextBuild]_vars

\* ------------------------------------------------------------------------
\* Builder classes: a call chain on BehaviorTreeComponent.createTree(owner, rootType)
\* ------------------------------------------------------------------------

\* builder.chain is the builder the next call is made on (last) above its
\* parentBuilder links, the TreeBuilder first; each builder holds its node and
\* its component (1: the one the TreeBuilder constructor created)

\* the builder class returned for a new node of kind k
BuilderClass(k) ==
  CASE k = "Sequence" -> "SequenceBuilder"
    [] k = "Selector" -> "SelectorBuilder"
    [] OTHER -> "DecoratorBuilder"

\* new TreeBuilder(owner, rootType)
InitBuilder ==
  /\ tree \in {<< Node(k, << >>, 0, 0) >> : k \in RootKinds}
  /\ builder = [chain |-> << [class |-> "TreeBuilder", node |-> 1, component |-> 1] >>,
                scope |-> << 0 >>, built |-> {}]
  /\ subscribed = DOMAIN tree
  /\ needsInterrupt = [n \in DOMAIN tree |-> FALSE]
  /\ needsReset = [n \in DOMAIN tree |-> FALSE]
  /\ isInterrupted = [n \in DOMAIN tree |-> FALSE]
  /\ currentIndex = [n \in DOMAIN tree |-> 0]
  /\ hasStarted = [n \in DOMAIN tree |-> FALSE]
  /\ currentCount = [n \in DOMAIN tree |-> 0]
  /\ result = [n \in DOMAIN tree |-> "None"]
  /\ runCalls = [n \in DOMAIN tree |-> 0]
  /\ clearCalls = [n \in DOMAIN tree |-> 0]
  /\ pc = "idle"
  /\ tickEnv = NoEnv
  /\ intrSince = FALSE
  /\ resetSince = FALSE
  /\ streak = [n \in DOMAIN tree |-> 0]
  /\ runsSince = [n \in DOMAIN tree |-> 0]
  /\ prior = Fields
  /\ addCall = NoCall
  /\ lib = LibStart(EmptyRoot)

\* the builder the next call of the chain is made on
Current == builder.chain[Len(builder.chain)]

\* a builder method that constructs the node nd (subscribed by its constructor)
\* and hands it to addChild, or to setChild in a DecoratorBuilder; enter: the
\* method returns a builder for the new node, otherwise this
BuilderAdd(nd, enter) ==
  LET b == Current
      c == Len(tree) + 1
      grown == Append(tree, nd)
  IN /\ c <= MaxBuilt
     /\ tree' = IF b.class = "DecoratorBuilder"
                THEN [grown EXCEPT ![b.node].child = c]
                ELSE [grown EXCEPT ![b.node].children = AddChild(@, c).children]
     /\ builder' = [builder EXCEPT
                      !.chain = IF enter
                                THEN Append(@, [class |-> BuilderClass(nd.kind), node |-> c,
                                                component |-> b.component])
                                ELSE @,
                      !.scope = Append(@, b.node)]
     /\ subscribed' = subscribed \cup {c}
     /\ needsInterrupt' = Append(needsInterrupt, FALSE)
     /\ needsReset' = Append(needsReset, FALSE)
     /\ isInterrupted' = Append(isInterrupted, FALSE)
     /\ currentIndex' = Append(currentIndex, 0)
     /\ hasStarted' = Append(hasStarted, FALSE)
     /\ currentCount' = Append(currentCount, 0)
     /\ result' = Append(result, "None")
     /\ runCalls' = Append(runCalls, 0)
     /\ clearCalls' = Append(clearCalls, 0)
     /\ streak' = Append(streak, 0)
     /\ runsSince' = Append(runsSince, 0)
     /\ prior' = [ needsInterrupt |-> needsInterrupt', needsReset |-> needsReset',
                   isInterrupted |-> isInterrupted', currentIndex |-> currentIndex',
                   hasStarted |-> hasStarted', currentCount |-> currentCount' ]
     /\ UNCHANGED << pc, tickEnv, intrSince, resetSince, addCall, lib >>

\* sequence(name) of TreeBuilder, SequenceBuilder, SelectorBuilder, DecoratorBuilder
BuilderSequence == BuilderAdd(Node("Sequence", << >>, 0, 0), TRUE)

\* selector(name)
BuilderSelector == BuilderAdd(Node("Selector", << >>, 0, 0), TRUE)

\* action(name, actionOrFn)
BuilderAction == BuilderAdd(Leaf("Action"), FALSE)

\* condition(name, conditionFn)
BuilderCondition == BuilderAdd(Leaf("Condition"), FALSE)

\* inverter(name): a DecoratorBuilder has no such method
BuilderInverter ==
  /\ Current.class # "DecoratorBuilder"
  /\ BuilderAdd(Node("Inverter", << >>, 0, 0), TRUE)

\* repeater(name, times?): a DecoratorBuilder has no such method
BuilderRepeater ==
  /\ Current.class # "DecoratorBuilder"
  /\ \E t \in 0..MaxTimes : BuilderAdd(Node("Repeater", << >>, 0, t), TRUE)

\* what the builder calls that add no node leave alone
BuilderKeeps ==
  UNCHANGED << tree, subscribed, needsInterrupt, needsReset, isInterrupted, currentIndex,
               hasStarted, currentCount, result, runCalls, clearCalls, pc, tickEnv,
               intrSince, resetSince, streak, runsSince, prior, addCall, lib >>

\* BaseBuilder.end(): the parentBuilder (a TreeBuilder has no end)
BuilderEnd ==
  /\ Current.class # "TreeBuilder"
  /\ builder' = [builder EXCEPT !.chain = SubSeq(@, 1, Len(@) - 1)]
  /\ BuilderKeeps

\* TreeBuilder.root(): a builder on the root node; BaseBuilder.root(): the TreeBuilder
BuilderRoot ==
  /\ IF Current.class = "TreeBuilder"
     THEN /\ Len(builder.chain) < MaxBuilt
          /\ builder' = [builder EXCEPT
                           !.chain = Append(@, [class |-> BuilderClass(kind(root)), node |-> root,
                                                component |-> Current.component])]
     ELSE builder' = [builder EXCEPT !.chain = << @[1] >>]
  /\ BuilderKeeps

\* build() of TreeBuilder and of BaseBuilder: this.component
BuilderBuild ==
  /\ builder' = [builder EXCEPT !.built = @ \cup {Current.component}]
  /\ BuilderKeeps

NextBuilder ==
  \/ BuilderSequence
  \/ BuilderSelector
  \/ BuilderAction
  \/ BuilderCondition
  \/ BuilderInverter
  \/ BuilderRepeater
  \/ BuilderEnd
  \/ BuilderRoot
  \/ BuilderBuild

SpecBuilder == InitBuilder /\ [][NextBuilder]_vars

\* ------------------------------------------------------------------------
\* Lib engine: the component
\* ------------------------------------------------------------------------

\* the state of the BehaviorTree.ts engine
btVars == << tree, subscribed, needsInterrupt, needsReset, isInterrupted, currentIndex,
             hasStarted, currentCount, result, runCalls, clearCalls, pc, tickEnv,
             intrSince, resetSince, streak, runsSince, prior, addCall, builder >>

\* a Lib tree assembled under the root, next to a BehaviorTree.ts component
\* that has only been constructed
InitLib ==
  /\ lib \in {LibStart(t) : t \in LibTrees}
  /\ tree = << Node("Selector", << >>, 0, 0) >>
  /\ subscribed = DOMAIN tree
  /\ needsInterrupt = [n \in DOMAIN tree |-> FALSE]
  /\ needsReset = [n \in DOMAIN tree |-> FALSE]
  /\ isInterrupted = [n \in DOMAIN tree |-> FALSE]
  /\ currentIndex = [n \in DOMAIN tree |-> 0]
  /\ hasStarted = [n \in DOMAIN tree |-> FALSE]
  /\ currentCount = [n \in DOMAIN tree |-> 0]
  /\ result = [n \in DOMAIN tree |-> "None"]
  /\ runCalls = [n \in DOMAIN tree |-> 0]
  /\ clearCalls = [n \in DOMAIN tree |-> 0]
  /\ pc = "idle"
  /\ tickEnv = NoEnv
  /\ intrSince = FALSE
  /\ resetSince = FALSE
  /\ streak = [n \in DOMAIN tree |-> 0]
  /\ runsSince = [n \in DOMAIN tree |-> 0]
  /\ prior = Fields
  /\ addCall = NoCall
  /\ builder = NoBuilder

\* the log of lib emptied for the tick that begins
LibFresh ==
  [ lib EXCEPT !.ret = [n \in LibNodes |-> "none"],
               !.updates = [n \in LibNodes |-> 0],
               !.actions = [n \in LibNodes |-> 0],
               !.asked = [n \in LibNodes |-> 0],
               !.over = [n \in LibNodes |-> FALSE],
               !.handled = [n \in LibNodes |-> FALSE],
               !.recorded = [n \in LibNodes |-> << >>],
               !.pre = 0,
               !.preOut = "true",
               !.checks = 0 ]

\* the ConditionNodes of the tree
LibConditions == {n \in LibNodes : LibKind(n) = "Condition"}

\* what can happen in one tick: every precondition() true, or one node's false or raising
LibEnvs ==
  {LibEnv(yes, 0, "true", budget) : yes \in SUBSET LibConditions, budget \in 0..MaxBudget}
    \cup {LibEnv(yes, pre, preOut, budget) :
            yes \in SUBSET LibConditions, pre \in LibNodes \ {1},
            preOut \in {"false", "throw"}, budget \in 0..MaxBudget}

\* BehaviorTreeComponent.update of the Lib engine, called on preupdate
LibTick ==
  \E e \in LibEnvs :
    /\ lib' = ComponentUpdate(LibFresh, e)
    /\ \A n \in LibNodes : lib'.currentCount[n] <= MaxCount /\ lib'.elapsedTime[n] <= MaxElapsed
    /\ UNCHANGED btVars

\* BehaviorTreeComponent.interrupt of the Lib engine, called by the host between ticks
\* (the log of the last tick ends with the call)
LibInterrupt ==
  /\ lib' = LibInterruptNode(LibFresh, 1)
  /\ UNCHANGED btVars

NextLib == LibTick \/ LibInterrupt

SpecLib == InitLib /\ [][NextLib]_vars

\* the node that holds c among its children or as its child
LibParent(c) ==
  CHOOSE p \in LibNodes :
    c = LibChild(p) \/ \E i \in 1..Len(LibChildren(p)) : LibChildren(p)[i] = c

\* the place of c among the children of its parent
LibPlace(c) == CHOOSE i \in 1..Len(LibChildren(LibParent(c))) : LibChildren(LibParent(c))[i] = c

\* nodes of the Lib tree reachable from n
RECURSIVE LibReachable(_)
LibReachable(n) ==
  {n} \cup UNION {LibReachable(LibChildren(n)[i]) : i \in 1..Len(LibChildren(n))}
      \cup (IF LibChild(n) # 0 THEN LibReachable(LibChild(n)) ELSE {})

LibTypeOK ==
  /\ lib.tree \in LibTrees \cup {EmptyRoot}
  /\ \A n \in LibNodes :
       /\ lib.status[n] \in {"free", "busy", "complete"}
       /\ lib.isInterrupted[n] \in BOOLEAN
       /\ lib.currentIndex[n] \in 0..Len(LibChildren(n))
       /\ lib.currentCount[n] \in 0..MaxCount
       /\ lib.isComplete[n] \in BOOLEAN
       /\ lib.elapsedTime[n] \in 0..MaxElapsed
       /\ Len(lib.childrenStatus[n]) = IF LibKind(n) = "Parallel" THEN Len(LibChildren(n)) ELSE 0
       /\ lib.ret[n] \in {"none", "success", "failure", "running", "throw"}
  /\ lib.escaped \in BOOLEAN
  /\ lib.thrown \in BOOLEAN

\* ------------------------------------------------------------------------
\* Shared notions
\* ------------------------------------------------------------------------

\* nodes reachable from n through composite children and the decorator child
RECURSIVE Reachable(_)
Reachable(n) ==
  {n} \cup UNION {Reachable(children(n)[i]) : i \in 1..Len(children(n))}
      \cup (IF child(n) # 0 THEN Reachable(child(n)) ELSE {})

TypeOK ==
  /\ pc \in {"idle", "drained"}
  /\ \A n \in Nodes :
       /\ result[n] \in {"None", "Success", "Failure", "Running", "Throw"}
       /\ currentIndex[n] \in 0..Len(children(n))
       /\ streak[n] \in -1..(IF kind(n) = "Repeater" THEN MaxCount ELSE Len(children(n)))

\* the children of composite n that were updated in the step just taken
UpdatedChildren(n) == {i \in 1..Len(children(n)) : result[children(n)[i]] # "None"}

\* ------------------------------------------------------------------------
\* C1: when root.update starts, processStateChanges has been applied to
\* every node reachable from the root: no reachable node still has a
\* pending interrupt or a pending reset.
\* ------------------------------------------------------------------------
C1_DrainBeforeUpdate ==
  pc = "drained" =>
    \A n \in Reachable(root) : ~needsInterrupt[n] /\ ~needsReset[n]

\* an interrupt was taken by the child of a decorator during the drain
C1_Witness ==
  /\ pc = "drained"
  /\ \E n \in Reachable(root) :
       /\ kind(n) \in {"Inverter", "Repeater"}
       /\ child(n) # 0
       /\ clearCalls[child(n)] > 0
       /\ isInterrupted[child(n)]

\* ------------------------------------------------------------------------
\* C2: a started ActionNode that takes an interrupt in processStateChanges
\* has clearActions invoked exactly once for it, and its next update
\* returns Failure.
\* ------------------------------------------------------------------------
C2_InterruptClearsOnce ==
  \A a \in Nodes :
    kind(a) = "Action" /\ isInterrupted[a] =>
      /\ (pc = "drained" /\ hasStarted[a] /\ clearCalls[a] > 0 => clearCalls[a] = 1)
      /\ (pc = "idle" /\ result[a] # "None" => result[a] = "Failure")

\* ------------------------------------------------------------------------
\* C3: after interrupt() and no reset() since the previous tick, every
\* node of the tree has isInterrupted = TRUE when the drain phase ends.
\* ------------------------------------------------------------------------
C3_AllInterruptedAfterDrain ==
  pc = "drained" /\ intrSince /\ ~resetSince =>
    \A n \in Reachable(root) : isInterrupted[n]

\* ------------------------------------------------------------------------
\* C4: a signal sent while root.update is in progress changes no node's
\* live state and clears no action in that tick: the tick ends as it would
\* have without the signal, with the signal pending on every subscribed
\* node.
\* ------------------------------------------------------------------------
C4_MidTickSignalDeferred ==
  [][ pc = "drained" /\ tickEnv'.sig # "none" =>
        LET base == Update(Fresh, root, [tickEnv' EXCEPT !.sig = "none"]).st
        IN /\ isInterrupted' = isInterrupted
           /\ isInterrupted' = base.isInterrupted
           /\ currentIndex' = base.currentIndex
           /\ hasStarted' = base.hasStarted
           /\ currentCount' = base.currentCount
           /\ result' = base.result
           /\ runCalls' = base.runCalls
           /\ \A n \in Nodes : clearCalls'[n] = 0
           /\ tickEnv'.sig = "interrupt" => \A n \in subscribed : needsInterrupt'[n]
           /\ tickEnv'.sig = "reset" => \A n \in subscribed : needsReset'[n]
    ]_vars

\* a Sequence on the active path advanced its cursor after its predicate
\* had sent an interrupt, which is still pending on it
C4_Witness ==
  /\ pc = "idle"
  /\ tickEnv.sig = "interrupt"
  /\ \E n \in Nodes :
       /\ kind(n) = "Sequence"
       /\ result[n] = "Running"
       /\ currentIndex[n] > 0
       /\ needsInterrupt[n]
       /\ ~isInterrupted[n]

\* ------------------------------------------------------------------------
\* C5: at most one ActionNode of the tree has hasStarted = TRUE.
\* ------------------------------------------------------------------------
C5_OneActionInFlight ==
  Cardinality({a \in Nodes : kind(a) = "Action" /\ hasStarted[a]}) <= 1

\* under a Sequence root a later action is in flight after an earlier one completed
C5_Witness ==
  /\ kind(root) = "Sequence"
  /\ \E i, j \in 1..Len(children(root)) :
       /\ i < j
       /\ kind(children(root)[i]) = "Action"
       /\ kind(children(root)[j]) = "Action"
       /\ hasStarted[children(root)[j]]
       /\ ~hasStarted[children(root)[i]]

\* ------------------------------------------------------------------------
\* C6: a Sequence of n children that all succeed evaluates one child per
\* tick, in order: the update after j earlier ones evaluates child j+1 and
\* returns Running when j+1 < n and Success when j+1 = n.
\* ------------------------------------------------------------------------
C6_SequenceOneChildPerTick ==
  [][ \A s \in Nodes :
        ( /\ kind(s) = "Sequence"
          /\ pc = "drained"
          /\ streak[s] >= 0
          /\ UpdatedChildren(s)' # {}
          /\ \A i \in UpdatedChildren(s)' : result'[children(s)[i]] = "Success" )
        => /\ streak[s] < Len(children(s))
           /\ UpdatedChildren(s)' = {streak[s] + 1}
           /\ result'[s] = IF streak[s] + 1 = Len(children(s)) THEN "Success" ELSE "Running"
    ]_vars

\* a Sequence of at least two children returned Success on its last child
C6_Witness ==
  \E s \in Nodes :
    /\ kind(s) = "Sequence"
    /\ Len(children(s)) >= 2
    /\ result[s] = "Success"
    /\ result[children(s)[Len(children(s))]] = "Success"

\* ------------------------------------------------------------------------
\* C7: when the child at a Sequence's cursor returns Failure, the Sequence
\* returns Failure in that update, evaluates no other child, sets
\* currentIndex to 0 and marks no child pending-reset.
\* ------------------------------------------------------------------------
C7_SequenceFailsFast ==
  [][ \A s \in Nodes :
        ( /\ kind(s) = "Sequence"
          /\ pc = "drained"
          /\ \E i \in UpdatedChildren(s)' : result'[children(s)[i]] = "Failure" )
        => /\ result'[s] = "Failure"
           /\ UpdatedChildren(s)' = {currentIndex[s] + 1}
           /\ currentIndex'[s] = 0
           /\ \A i \in 1..Len(children(s)) :
                needsReset'[children(s)[i]] =>
                  needsReset[children(s)[i]] \/ tickEnv'.sig = "reset"
    ]_vars

\* a Sequence failed on its second child and is back at child 0
C7_Witness ==
  \E s \in Nodes :
    /\ kind(s) = "Sequence"
    /\ Len(children(s)) >= 2
    /\ result[s] = "Failure"
    /\ result[children(s)[2]] = "Failure"
    /\ currentIndex[s] = 0
    /\ \A i \in 1..Len(children(s)) : ~needsReset[children(s)[i]]

\* ------------------------------------------------------------------------
\* C8: a Selector whose children return Success or Failure evaluates one
\* child per tick starting at child 0: the update after j failures
\* evaluates child j+1; on Success it returns Success; on Failure it
\* returns Running when j+1 < n and Failure when j+1 = n; currentIndex is 0
\* after either terminal result.
\* ------------------------------------------------------------------------
C8_SelectorOneChildPerTick ==
  [][ \A s \in Nodes :
        ( /\ kind(s) = "Selector"
          /\ pc = "drained"
          /\ streak[s] >= 0
          /\ UpdatedChildren(s)' # {}
          /\ \A i \in UpdatedChildren(s)' : result'[children(s)[i]] \in {"Success", "Failure"} )
        => /\ streak[s] < Len(children(s))
           /\ UpdatedChildren(s)' = {streak[s] + 1}
           /\ result'[children(s)[streak[s] + 1]] = "Success" =>
                result'[s] = "Success" /\ currentIndex'[s] = 0
           /\ result'[children(s)[streak[s] + 1]] = "Failure" =>
                IF streak[s] + 1 = Len(children(s))
                THEN result'[s] = "Failure" /\ currentIndex'[s] = 0
                ELSE result'[s] = "Running"
    ]_vars

\* a Selector of at least two children failed on its last child
C8_Witness ==
  \E s \in Nodes :
    /\ kind(s) = "Selector"
    /\ Len(children(s)) >= 2
    /\ result[s] = "Failure"
    /\ result[children(s)[Len(children(s))]] = "Failure"
    /\ currentIndex[s] = 0

\* ------------------------------------------------------------------------
\* C9: a non-interrupted ActionNode calls runAction exactly when it is
\* updated with hasStarted = FALSE, returns Success and clears hasStarted
\* exactly when the action is complete, else returns Running with
\* hasStarted set; runAction is called at most once between two of its
\* Success returns or processed resets.
\* ------------------------------------------------------------------------
C9_RunActionOncePerActivation ==
  [][ \A a \in Nodes :
        ( /\ kind(a) = "Action"
          /\ pc = "drained"
          /\ result'[a] # "None"
          /\ ~isInterrupted[a] )
        => /\ runCalls'[a] = IF hasStarted[a] THEN 0 ELSE 1
           /\ result'[a] = IF tickEnv'.done THEN "Success" ELSE "Running"
           /\ hasStarted'[a] = ~tickEnv'.done
           /\ runsSince'[a] <= 1
    ]_vars

\* an action started in an earlier tick is polled again without being run again
C9_Witness ==
  \E a \in Nodes :
    /\ kind(a) = "Action"
    /\ pc = "idle"
    /\ result[a] = "Running"
    /\ runCalls[a] = 0
    /\ hasStarted[a]
    /\ runsSince[a] = 1

\* ------------------------------------------------------------------------
\* C10: when a Condition's predicate raises an error, the node's update
\* returns Failure and no error leaves the parent's update, root.update or
\* the tick.
\* ------------------------------------------------------------------------
C10_PredicateErrorIsFailure ==
  \A n \in Nodes :
    kind(n) = "Condition" /\ result[n] # "None" /\ tickEnv.out = "throw" =>
      /\ result[n] = "Failure"
      /\ \A m \in Nodes : result[m] # "Throw"

\* a node's live fields are those it had when constructed
Ground(f, n) ==
  /\ ~f.isInterrupted[n]
  /\ ~f.hasStarted[n]
  /\ f.currentIndex[n] = 0
  /\ f.currentCount[n] = 0

\* ------------------------------------------------------------------------
\* C12: only ActionNodes command the external action system: no other
\* node calls runAction or clearActions, in update or in signal processing.
\* ------------------------------------------------------------------------
C12_OnlyActionsCommandQueue ==
  \A n \in Nodes : kind(n) # "Action" => runCalls[n] = 0 /\ clearCalls[n] = 0

\* ------------------------------------------------------------------------
\* C13: once a pending reset has been processed on a node, the node is in
\* its initial state whatever its state was before, and the tree structure
\* is unchanged.
\* ------------------------------------------------------------------------
C13_ResetGivesInitialState ==
  [][ pc = "idle" /\ pc' = "drained" =>
        /\ tree' = tree
        /\ \A n \in Reachable(root) :
             needsReset[n] => Ground(Fields', n) /\ ~needsReset'[n] /\ ~needsInterrupt'[n]
    ]_vars

\* a reset was processed on a started action, an interrupted node, a
\* composite with an advanced cursor or a Repeater that had counted
C13_Witness ==
  /\ pc = "drained"
  /\ \E a, c \in Reachable(root) :
       /\ prior.needsReset[a] /\ prior.hasStarted[a] /\ prior.isInterrupted[a]
       /\ prior.needsReset[c] /\ prior.currentIndex[c] > 0
       /\ kind(c) \in {"Sequence", "Selector"}

\* ------------------------------------------------------------------------
\* C14: processing a reset on a node that is in its initial state changes
\* none of its fields and calls neither runAction nor clearActions; and in
\* any state, processing a second reset after a first leaves what the
\* first left.
\* ------------------------------------------------------------------------
C14_ResetIdempotent ==
  [][ pc = "idle" /\ pc' = "drained" =>
        \A n \in Reachable(root) :
          /\ (needsReset[n] /\ ~needsInterrupt[n] /\ Ground(Fields, n)) =>
               /\ Ground(Fields', n)
               /\ runCalls'[n] = 0
               /\ clearCalls'[n] = 0
          /\ LET one == ProcessStateChanges(OnReset(Fresh, n), n)
                 two == ProcessStateChanges(OnReset(one, n), n)
             IN \A m \in Nodes :
                  /\ two.needsInterrupt[m] = one.needsInterrupt[m]
                  /\ two.needsReset[m] = one.needsReset[m]
                  /\ two.isInterrupted[m] = one.isInterrupted[m]
                  /\ two.currentIndex[m] = one.currentIndex[m]
                  /\ two.hasStarted[m] = one.hasStarted[m]
                  /\ two.currentCount[m] = one.currentCount[m]
                  /\ two.runCalls[m] = one.runCalls[m]
                  /\ two.clearCalls[m] = one.clearCalls[m]
    ]_vars

\* a reset was processed on an ActionNode that was in its initial state
C14_Witness ==
  /\ pc = "drained"
  /\ \E a \in Reachable(root) :
       /\ kind(a) = "Action"
       /\ prior.needsReset[a]
       /\ ~prior.needsInterrupt[a]
       /\ Ground(prior, a)
       /\ Ground(Fields, a)
       /\ clearCalls[a] = 0

\* ------------------------------------------------------------------------
\* C15: a Repeater with times = n >= 1 whose child succeeds on every
\* update returns Running after each of the first n-1 successes and
\* Success on the n-th, with currentCount 0 again.
\* ------------------------------------------------------------------------
C15_RepeaterCounts ==
  [][ \A r \in Nodes :
        ( /\ kind(r) = "Repeater"
          /\ times(r) >= 1
          /\ child(r) # 0
          /\ pc = "drained"
          /\ streak[r] >= 0
          /\ result'[child(r)] = "Success" )
        => /\ streak[r] < times(r)
           /\ result'[r] = IF streak[r] + 1 = times(r) THEN "Success" ELSE "Running"
           /\ result'[r] = "Success" => currentCount'[r] = 0
    ]_vars

\* a Repeater with a count of at least 2 returned Success
C15_Witness ==
  \E r \in Nodes :
    /\ kind(r) = "Repeater"
    /\ times(r) >= 2
    /\ result[r] = "Success"
    /\ currentCount[r] = 0

\* ------------------------------------------------------------------------
\* C16: when a Repeater's child returns Failure the Repeater returns
\* Failure and its counter is 0; when the child returns Running the
\* Repeater returns Running and the counter is unchanged.
\* ------------------------------------------------------------------------
C16_RepeaterFailureResetsCount ==
  [][ \A r \in Nodes :
        ( /\ kind(r) = "Repeater"
          /\ child(r) # 0
          /\ pc = "drained"
          /\ result'[child(r)] \in {"Failure", "Running"} )
        => /\ result'[r] = result'[child(r)]
           /\ currentCount'[r] = IF result'[r] = "Failure" THEN 0 ELSE currentCount[r]
    ]_vars

\* ------------------------------------------------------------------------
\* C17: a Repeater without a repeat count never returns Success; whenever
\* its child succeeds it returns Running.
\* ------------------------------------------------------------------------
C17_EndlessRepeaterNeverSucceeds ==
  \A r \in Nodes :
    kind(r) = "Repeater" /\ times(r) = 0 =>
      /\ result[r] # "Success"
      /\ (child(r) # 0 /\ result[child(r)] = "Success") => result[r] = "Running"

\* a Repeater without a count is still Running after its child succeeded twice
C17_Witness ==
  \E r \in Nodes :
    /\ kind(r) = "Repeater"
    /\ times(r) = 0
    /\ currentCount[r] >= 2
    /\ result[r] = "Running"
    /\ result[child(r)] = "Success"

C20_NoListenerAfterRemove ==
  [][ root \notin subscribed /\ pc = "idle" /\ pc' = "idle" =>
        needsInterrupt' = needsInterrupt /\ needsReset' = needsReset
    ]_vars

\* ------------------------------------------------------------------------
\* C19: addChild raises an error when given null or a reference already in
\* the composite's children and then leaves the list as it was; any other
\* child is appended; so no list ever holds null or a reference twice.
\* ------------------------------------------------------------------------
C19_AddChildRejects ==
  [][ addCall' # addCall \/ tree' # tree =>
        LET p == addCall'.parent
            c == addCall'.child
        IN /\ IF c = 0 \/ \E i \in 1..Len(children(p)) : children(p)[i] = c
              THEN addCall'.error # "none" /\ tree' = tree
              ELSE addCall'.error = "none" /\ tree'[p].children = Append(children(p), c)
           /\ \A q \in Nodes :
                LET cs == tree'[q].children
                IN \A i, j \in 1..Len(cs) : cs[i] # 0 /\ (cs[i] = cs[j] => i = j)
    ]_vars

\* a child already in a list of two was offered again and refused
C19_Witness ==
  /\ addCall.error = "Child already exists in this node"
  /\ Len(children(addCall.parent)) >= 2
  /\ \E i \in 1..Len(children(addCall.parent)) : children(addCall.parent)[i] = addCall.child

\* ------------------------------------------------------------------------
\* C11 (Lib engine): when an error has escaped root.update in a tick, the
\* component's update does not pass it on to the host, and on return every
\* node of the tree has status free, cursor 0, counter 0, every recorded
\* child status of a Parallel running and isComplete false.
\* ------------------------------------------------------------------------
C11_ErrorResetsTree ==
  lib.escaped =>
    /\ ~lib.thrown
    /\ \A n \in LibReachable(1) :
         /\ lib.status[n] = "free"
         /\ lib.currentIndex[n] = 0
         /\ lib.currentCount[n] = 0
         /\ \A i \in 1..Len(lib.childrenStatus[n]) : lib.childrenStatus[n][i] = "running"
         /\ ~lib.isComplete[n]

\* the error escaped while a composite's cursor had advanced and a node was busy
C11_Witness ==
  /\ lib.escaped
  /\ \E n, m \in LibNodes : lib.caught.currentIndex[n] > 0 /\ lib.caught.status[m] = "busy"

\* ------------------------------------------------------------------------
\* C21: a Sequence without children and a Selector without children return
\* Failure from every update.
\* ------------------------------------------------------------------------
C21_EmptyCompositeFails ==
  \A n \in Nodes :
    kind(n) \in {"Sequence", "Selector"} /\ Len(children(n)) = 0 /\ result[n] # "None" =>
      result[n] = "Failure"

\* a Sequence without children, not interrupted, has just been updated
C21_Witness ==
  \E n \in Nodes :
    /\ kind(n) = "Sequence" /\ Len(children(n)) = 0
    /\ result[n] = "Failure" /\ ~isInterrupted[n]

\* ------------------------------------------------------------------------
\* C22: the result of a Condition node's update is Success when its
\* predicate returns true and Failure when it returns false, whatever the
\* node's pending flags and interrupted flag are, and the update leaves
\* every field of the node as it was.
\* ------------------------------------------------------------------------
C22_ConditionIgnoresSignals ==
  \A n \in Nodes :
    kind(n) = "Condition" =>
      /\ result[n] # "None" =>
           result[n] = (IF tickEnv.out = "true" THEN "Success" ELSE "Failure")
      /\ \A ni \in BOOLEAN, nr \in BOOLEAN, ii \in BOOLEAN, out \in PredicateOutcomes :
           LET s == [Fresh EXCEPT !.needsInterrupt[n] = ni, !.needsReset[n] = nr,
                                  !.isInterrupted[n] = ii]
               r == ConditionUpdate(s, n, Env(out, FALSE, "none"))
           IN /\ r.res = (IF out = "true" THEN "Success" ELSE "Failure")
              /\ r.st.needsInterrupt[n] = ni
              /\ r.st.needsReset[n] = nr
              /\ r.st.isInterrupted[n] = ii
              /\ r.st.currentIndex[n] = currentIndex[n]
              /\ r.st.hasStarted[n] = hasStarted[n]
              /\ r.st.currentCount[n] = currentCount[n]
              /\ r.st.runCalls[n] = 0
              /\ r.st.clearCalls[n] = 0

\* a Condition was updated in the tick whose drain processed a reset on it
\* after an interrupt had been processed on it
C22_Witness ==
  /\ pc = "idle"
  /\ \E n \in Nodes :
       /\ kind(n) = "Condition" /\ result[n] = "Success"
       /\ prior.isInterrupted[n] /\ prior.needsReset[n]

\* the nodes right below n
Below(n) == {children(n)[i] : i \in 1..Len(children(n))} \cup ({child(n)} \ {0})

\* ------------------------------------------------------------------------
\* C23: the update of a Sequence, Selector, Inverter, Repeater or Action
\* node that follows the processing of a pending interrupt, no reset being
\* processed, returns Failure, updates no child and calls no runAction:
\* in the ticks that happen, and for every such node of the tree were its
\* update to be called with the interrupt pending or just processed.
\* ------------------------------------------------------------------------
C23_InterruptedUpdateFails ==
  \A n \in Nodes :
    kind(n) # "Condition" =>
      /\ (prior.needsInterrupt[n] /\ ~prior.needsReset[n] /\ result[n] # "None") =>
           /\ result[n] = "Failure"
           /\ runCalls[n] = 0
           /\ \A c \in Below(n) : result[c] = "None"
      /\ \A pending \in BOOLEAN, out \in PredicateOutcomes, done \in BOOLEAN :
           LET s == [Fresh EXCEPT !.needsInterrupt[n] = pending, !.isInterrupted[n] = ~pending,
                                  !.needsReset[n] = FALSE]
               r == Update(s, n, Env(out, done, "none"))
           IN /\ r.res = "Failure"
              /\ \A m \in Nodes : r.st.runCalls[m] = 0
              /\ \A c \in Below(n) : r.st.result[c] = "None"

\* a composite whose cursor had advanced was updated in the tick whose
\* drain processed an interrupt on it
C23_Witness ==
  /\ pc = "idle"
  /\ \E n \in Nodes :
       /\ kind(n) \in {"Sequence", "Selector"}
       /\ prior.needsInterrupt[n] /\ ~prior.needsReset[n] /\ prior.currentIndex[n] > 0
       /\ result[n] = "Failure"


\* C24: Lib engine. A Parallel that is not interrupted, has n children and the
\* threshold r it was constructed with (r = n when none was given), and whose
\* own time checks stay within the budget, returns Success when S >= r,
\* otherwise Failure when n - F < r, otherwise Running with some child still
\* recorded Running, S and F being the numbers of children the tick has
\* recorded as Success and as Failure.
C24_ParallelVerdict ==
  \A n \in LibNodes :
    (/\ LibKind(n) = "Parallel"
     /\ lib.ret[n] \in {"success", "failure", "running"}
     /\ ~lib.handled[n]
     /\ ~lib.over[n])
      => LET len == Len(LibChildren(n))
             a == lib.tree[n].requiredSuccesses
             r == IF a = -1 THEN len ELSE a
             S == CountOf(lib.recorded[n], "success")
             F == CountOf(lib.recorded[n], "failure")
         IN /\ Len(lib.recorded[n]) = len
            /\ lib.ret[n] = IF S >= r THEN "success"
                            ELSE IF len - F < r THEN "failure" ELSE "running"
            /\ lib.ret[n] = "running"
                 => \E i \in 1..len : lib.recorded[n][i] = "running"


C26_PreconditionFalseFails ==
  \A c \in LibNodes \ {1} :
    lib.pre = c /\ lib.preOut = "false" =>
      LET p == LibParent(c)
          cs == LibChildren(p)
          last == LibPlace(c) = Len(cs)
          statuses == IF lib.recorded[p] = << >> THEN lib.childrenStatus[p] ELSE lib.recorded[p]
      IN /\ lib.actions[c] = 0
         /\ lib.ret[c] \in {"none", "failure"}
         /\ CASE LibKind(p) \in {"Sequence", "Repeat"} ->
                   lib.updates[c] = 0 /\ lib.ret[p] = "failure"
              [] LibKind(p) = "Inverter" -> lib.updates[c] = 0 /\ lib.ret[p] = "success"
              [] LibKind(p) = "Parallel" ->
                   lib.updates[c] = 0 /\ statuses[LibPlace(c)] = "failure"
              [] LibKind(p) \in {"Selector", "Root"} ->
                   /\ lib.updates[c] = 0
                   /\ last => lib.ret[p] = "failure"
                   /\ ~last /\ ~lib.over[p] => lib.asked[cs[LibPlace(c) + 1]] = 1
               [] LibKind(p) = "Succeeder" -> lib.ret[c] = "failure"

\* C26 (amended): the same for every node whose parent is not a Succeeder,
\* the parent having asked the node's precondition() and left its update
\* uncalled.
C26_RefusedByAskingParent ==
  \A c \in LibNodes \ {1} :
    lib.pre = c /\ lib.preOut = "false" /\ LibKind(LibParent(c)) # "Succeeder" =>
      LET p == LibParent(c)
          cs == LibChildren(p)
          last == LibPlace(c) = Len(cs)
          statuses == IF lib.recorded[p] = << >> THEN lib.childrenStatus[p] ELSE lib.recorded[p]
      IN /\ lib.actions[c] = 0
         /\ lib.ret[c] \in {"none", "failure"}
         /\ CASE LibKind(p) \in {"Sequence", "Repeat"} ->
                   lib.updates[c] = 0 /\ lib.ret[p] = "failure"
              [] LibKind(p) = "Inverter" -> lib.updates[c] = 0 /\ lib.ret[p] = "success"
              [] LibKind(p) = "Parallel" ->
                   lib.updates[c] = 0 /\ statuses[LibPlace(c)] = "failure"
              [] LibKind(p) \in {"Selector", "Root"} ->
                   /\ lib.updates[c] = 0
                   /\ last => lib.ret[p] = "failure"
                   /\ ~last /\ ~lib.over[p] => lib.asked[cs[LibPlace(c) + 1]] = 1

\* a parent has found false the precondition of a child that was busy, and has
\* left it alone
C26_Witness ==
  \E c \in LibNodes \ {1} :
    /\ lib.pre = c
    /\ lib.preOut = "false"
    /\ LibKind(LibParent(c)) # "Succeeder"
    /\ lib.asked[c] = 1
    /\ lib.updates[c] = 0
    /\ lib.status[c] = "busy"


\* C27: Lib engine. Whenever a time check of a node finds the budget used up
\* in a tick, the node's update returns Running, the node's status, cursor,
\* counter, elapsed time and completion flag are as they were before the
\* tick, no node below it is updated after the check (none at all below a
\* node that checks once before its children, not the last child of a Root or
\* a Parallel, which check before each child).
C27_TimeoutYields ==
  [][\A n \in LibNodes :
       lib'.updates[1] = 1 /\ lib'.over[n] =>
         /\ lib'.ret[n] = "running"
         /\ lib'.status[n] = lib.status[n]
         /\ lib'.currentIndex[n] = lib.currentIndex[n]
         /\ lib'.currentCount[n] = lib.currentCount[n]
         /\ lib'.elapsedTime[n] = lib.elapsedTime[n]
         /\ lib'.isComplete[n] = lib.isComplete[n]
         /\ IF LibKind(n) \in {"Root", "Parallel"}
            THEN LET last == LibChildren(n)[Len(LibChildren(n))]
                 IN lib'.asked[last] = 0 /\ lib'.updates[last] = 0
            ELSE \A c \in LibReachable(n) \ {n} : lib'.updates[c] = 0
    ]_vars


\* C29: Lib engine. In one update of a Selector, a child that returns Failure
\* or whose precondition() is false is followed at once by the next child:
\* the next child is asked, and updated when its precondition holds, in the
\* same tick; after the last child the Selector returns Failure. The Selector
\* returns Running only with a child that has returned Running in the tick,
\* and a failed child followed by a succeeding one gives Success in that tick.
C29_SelectorMovesOnAtOnce ==
  \A n \in LibNodes :
    LibKind(n) = "Selector" /\ lib.ret[n] # "none" =>
      LET cs == LibChildren(n)
          failed(c) == \/ lib.ret[c] = "failure"
                       \/ lib.pre = c /\ lib.preOut = "false" /\ lib.asked[c] = 1
      IN /\ \A i \in 1..Len(cs) :
              failed(cs[i]) =>
                IF i = Len(cs) THEN lib.ret[n] = "failure"
                ELSE /\ lib.asked[cs[i + 1]] = 1
                     /\ lib.updates[cs[i + 1]] = IF lib.pre = cs[i + 1] THEN 0 ELSE 1
                     /\ lib.ret[cs[i + 1]] = "success" => lib.ret[n] = "success"
         /\ lib.ret[n] = "running" /\ ~lib.over[n]
              => \E i \in 1..Len(cs) : lib.ret[cs[i]] = "running"

\* a Selector has returned Success in the tick in which its first child failed
C29_Witness ==
  \E n \in LibNodes :
    /\ LibKind(n) = "Selector"
    /\ lib.ret[n] = "success"
    /\ lib.ret[LibChildren(n)[1]] = "failure"
    /\ lib.ret[LibChildren(n)[2]] = "success"


\* C30: BehaviorTree.ts engine. When the last child of a Sequence has returned
\* Success in a tick, the Sequence has returned Success in that tick, its
\* currentIndex is 0 and every one of its direct children is marked for reset.
C30_SequenceSuccessResets ==
  \A n \in Nodes :
    (/\ kind(n) = "Sequence"
     /\ Len(children(n)) > 0
     /\ result[children(n)[Len(children(n))]] = "Success")
      => /\ result[n] = "Success"
         /\ currentIndex[n] = 0
         /\ \A i \in 1..Len(children(n)) : needsReset[children(n)[i]]

\* a Sequence of several children has completed with the Success of its last child
C30_Witness ==
  \E n \in Nodes :
    /\ kind(n) = "Sequence"
    /\ Len(children(n)) > 1
    /\ result[children(n)[Len(children(n))]] = "Success"
    /\ result[n] = "Success"
    /\ \A i \in 1..Len(children(n)) : needsReset[children(n)[i]]


\* C28: BehaviorTree.ts builder. Every node is attached to the node of the
\* scope that was current when it was added (the node entered last and not
\* yet left by end()); the children of every node of the built tree are the
\* nodes added in its scope, in the order of the calls; build() returns the
\* component of the TreeBuilder from every scope.
C28_BuilderScopes ==
  /\ \A n \in Nodes \ {root} :
       LET p == builder.scope[n]
       IN IF kind(p) \in {"Inverter", "Repeater"} THEN child(p) = n
          ELSE \E i \in 1..Len(children(p)) : children(p)[i] = n
  /\ \A p \in Nodes :
       LET added == {n \in Nodes : builder.scope[n] = p}
           held == IF kind(p) \in {"Inverter", "Repeater"}
                   THEN (IF child(p) = 0 THEN << >> ELSE << child(p) >>)
                   ELSE children(p)
       IN /\ Len(held) = Cardinality(added)
          /\ \A i \in 1..Len(held) : held[i] \in added
          /\ \A i, j \in 1..Len(held) : i < j => held[i] < held[j]
  /\ builder.built \subseteq {builder.chain[1].component}


\* C31: BehaviorTree.ts engine. In every state reached by ticks, interrupts
\* and resets, the currentIndex of every Sequence and Selector lies in
\* 0..children.length, is below children.length when the composite has
\* children, and no update has indexed children at or past its length (which
\* would raise an error, the predicates raising none).
C31_CursorInRange ==
  \A n \in Nodes :
    kind(n) \in RootKinds =>
      /\ currentIndex[n] >= 0
      /\ currentIndex[n] <= Len(children(n))
      /\ Len(children(n)) > 0 => currentIndex[n] < Len(children(n))
      /\ result[n] # "Throw"

\* a Selector of several children has had its last child fail and is back at child 0
C31_Witness ==
  \E n \in Nodes :
    /\ kind(n) = "Selector"
    /\ Len(children(n)) > 1
    /\ result[children(n)[Len(children(n))]] = "Failure"
    /\ result[n] = "Failure"
    /\ currentIndex[n] = 0


\* C32: BehaviorTree.ts engine. When processStateChanges has just handled a
\* pending interrupt or a pending reset on a Sequence or Selector (the drain
\* phase of a tick has run), the currentIndex of that composite is 0.
C32_ProcessedCursorZero ==
  pc = "drained" =>
    \A n \in Reachable(root) :
      kind(n) \in RootKinds /\ (prior.needsInterrupt[n] \/ prior.needsReset[n]) =>
        currentIndex[n] = 0


\* C33: BehaviorTree.ts engine. A call of controller.interrupt() or
\* controller.reset() between ticks sets the pending-interrupt, respectively
\* the pending-reset, flag of every subscribed node and does nothing else: no
\* flag is cleared, no flag of an unsubscribed node is set, isInterrupted,
\* currentIndex, hasStarted, currentCount and the tree are as before, and no
\* runAction or clearActions call is made.
C33_SignalsOnlySetFlags ==
  [][pc = "idle" /\ pc' = "idle" =>
       /\ tree' = tree
       /\ isInterrupted' = isInterrupted
       /\ currentIndex' = currentIndex
       /\ hasStarted' = hasStarted
       /\ currentCount' = currentCount
       /\ runCalls' = runCalls
       /\ clearCalls' = clearCalls
       /\ \/ /\ needsInterrupt' = [n \in Nodes |-> needsInterrupt[n] \/ n \in subscribed]
             /\ needsReset' = needsReset
          \/ /\ needsReset' = [n \in Nodes |-> needsReset[n] \/ n \in subscribed]
             /\ needsInterrupt' = needsInterrupt
          \/ /\ needsInterrupt' = needsInterrupt
             /\ needsReset' = needsReset
    ]_vars

\* both signals are pending on a started action and on a composite whose cursor has advanced
C33_Witness ==
  /\ pc = "idle"
  /\ \E n \in Nodes :
       needsInterrupt[n] /\ needsReset[n] /\ hasStarted[n] /\ ~isInterrupted[n]
  /\ \E m \in Nodes :
       needsInterrupt[m] /\ needsReset[m] /\ currentIndex[m] > 0 /\ ~isInterrupted[m]


\* C34: BehaviorTree.ts engine. In a tick a Sequence or Selector updates no
\* child other than children[currentIndex]; its currentIndex changes in
\* root.update only when that child has returned Success or Failure or in a
\* tick that has processed an interrupt or a reset on the composite, in the
\* drain only when a signal was pending on it, and never between ticks. So
\* while the child at the cursor returns Running no other child is updated.
C34_OnlyChildAtCursor ==
  [][\A n \in Nodes :
       kind(n) \in RootKinds =>
         LET cs == children(n)
         IN /\ pc = "drained" /\ pc' = "idle" =>
                 /\ \A i \in 1..Len(cs) :
                      result'[cs[i]] # "None" => result'[n] # "None" /\ i = currentIndex[n] + 1
                 /\ currentIndex'[n] # currentIndex[n] =>
                      \/ /\ result'[n] # "None"
                         /\ currentIndex[n] < Len(cs)
                         /\ result'[cs[currentIndex[n] + 1]] \in {"Success", "Failure"}
                      \/ prior.needsInterrupt[n]
                      \/ prior.needsReset[n]
            /\ pc = "idle" /\ pc' = "drained" /\ currentIndex'[n] # currentIndex[n] =>
                 needsInterrupt[n] \/ needsReset[n]
            /\ pc = "idle" /\ pc' = "idle" => currentIndex'[n] = currentIndex[n]
    ]_vars

\* a composite was updated with its cursor past the first child, the child at
\* the cursor returned Running and the first child was left alone
C34_Witness ==
  \E n \in Nodes :
    /\ kind(n) \in RootKinds
    /\ currentIndex[n] > 0
    /\ result[n] = "Running"
    /\ result[children(n)[currentIndex[n] + 1]] = "Running"
    /\ result[children(n)[1]] = "None"


\* C35: BehaviorTree.ts engine. The isInterrupted flag of a node stays true
\* until processStateChanges handles a pending reset on that node: no other
\* step clears it. While it is true, every update of a Sequence, Selector,
\* Inverter, Repeater or Action node returns Failure, updates no child and
\* calls no runAction, tick after tick: in the ticks that happen, and for
\* every interrupted node of the tree were its update to be called.
C35_InterruptedUntilReset ==
  [][\A n \in Nodes :
       isInterrupted[n] =>
         /\ ~isInterrupted'[n] => needsReset[n] /\ ~needsReset'[n]
         /\ isInterrupted'[n] /\ kind(n) # "Condition" =>
              /\ result'[n] \in {"None", "Failure"}
              /\ runCalls'[n] = 0
              /\ result'[n] = "Failure" => \A c \in Below(n) : result'[c] = "None"
         /\ kind(n) # "Condition" /\ ~needsInterrupt[n] /\ ~needsReset[n] =>
              \A out \in PredicateOutcomes, done \in BOOLEAN :
                \A r \in {Update(Fresh, n, Env(out, done, "none"))} :
                  /\ r.res = "Failure"
                  /\ r.st.isInterrupted[n]
                  /\ r.st.runCalls[n] = 0
                  /\ \A c \in Below(n) : r.st.result[c] = "None"
    ]_vars

\* a composite interrupted before the previous tick has been updated again and
\* has answered Failure without a pending signal
C35_Witness ==
  \E n \in Nodes :
    /\ kind(n) \in RootKinds
    /\ Len(children(n)) > 0
    /\ prior.isInterrupted[n]
    /\ ~prior.needsInterrupt[n]
    /\ isInterrupted[n]
    /\ result[n] = "Failure"


\* C36: BehaviorTree.ts engine. A node on which an interrupt and a reset were
\* both pending when processStateChanges ran has isInterrupted false, cursor
\* and counter 0, hasStarted false and no pending flag, the interrupt being
\* applied before the reset; and the states of all nodes after
\* processStateChanges are the same whether interrupt() was called before
\* reset() or after it.
C36_BothPendingOrderFree ==
  /\ pc = "drained" =>
       \A n \in Reachable(root) :
         prior.needsInterrupt[n] /\ prior.needsReset[n] =>
           /\ Ground(Fields, n)
           /\ ~needsInterrupt[n]
           /\ ~needsReset[n]
  /\ pc = "idle" =>
       \A a \in {ProcessTreeStateChanges(Emit(Emit(Fresh, "interrupt"), "reset"), root)} :
         \A b \in {ProcessTreeStateChanges(Emit(Emit(Fresh, "reset"), "interrupt"), root)} :
           \A n \in Nodes :
             /\ a.isInterrupted[n] = b.isInterrupted[n]
             /\ a.currentIndex[n] = b.currentIndex[n]
             /\ a.currentCount[n] = b.currentCount[n]
             /\ a.hasStarted[n] = b.hasStarted[n]
             /\ a.needsInterrupt[n] = b.needsInterrupt[n]
             /\ a.needsReset[n] = b.needsReset[n]
             /\ a.clearCalls[n] = b.clearCalls[n]
             /\ n \in Reachable(root) /\ n \in subscribed => Ground(a, n)

\* the drain has handled both signals on a started action and on a composite
\* whose cursor had advanced
C36_Witness ==
  /\ pc = "drained"
  /\ \E n \in Reachable(root) :
       prior.needsInterrupt[n] /\ prior.needsReset[n] /\ prior.hasStarted[n]
  /\ \E m \in Reachable(root) :
       prior.needsInterrupt[m] /\ prior.needsReset[m] /\ prior.currentIndex[m] > 0


\* C37: BehaviorTree.ts engine. When root.update has returned Success or
\* Failure in a tick in which no node was interrupted, and no interrupt is
\* pending, the drain of the next tick leaves every node of the tree in its
\* initial state: isInterrupted false, currentIndex 0, hasStarted false,
\* currentCount 0.
C37_RunEndsInInitialState ==
  [][(/\ pc = "idle"
      /\ pc' = "drained"
      /\ result[root] \in {"Success", "Failure"}
      /\ \A n \in Nodes : ~isInterrupted[n] /\ ~needsInterrupt[n])
       => \A n \in Reachable(root) : Ground(Fields', n)
    ]_vars

\* C38: after onRemove has run, the handler that onAdd registered for the owner's
\* "preupdate" event is no longer registered, and no later preupdate event starts
\* a tick of the tree
C38_RemovedStopsTicks ==
  [][Removed => (PreupdateHandlers = {} /\ ~(pc = "idle" /\ pc' = "drained"))]_vars

\* C39: Lib engine. interrupt() sets the interrupt flag of every node of the tree
\* in the one call. In a tick a node's flag is cleared exactly when that node's
\* own update executes handleInterrupt with the flag set: that update returns
\* Failure and leaves the node and its subtree reset, while the flags of the
\* nodes below it stay as they were; the reset() of the catch block and the
\* handling of an ancestor clear no flag, and no tick sets one.
C39_FlagClearedByOwnHandling ==
  [][/\ lib'.updates[1] = 0 /\ lib' # lib => \A n \in LibNodes : lib'.isInterrupted[n]
     /\ lib'.updates[1] = 1 =>
          \A n \in LibNodes :
            /\ lib'.handled[n] => lib.isInterrupted[n]
            /\ lib'.isInterrupted[n] = (lib.isInterrupted[n] /\ ~lib'.handled[n])
            /\ lib'.handled[n] =>
                 /\ lib'.ret[n] = "failure"
                 /\ lib'.updates[n] = 1
                 /\ \A m \in LibReachable(n) :
                      /\ lib'.status[m] = "free"
                      /\ lib'.currentIndex[m] = 0
                      /\ lib'.currentCount[m] = 0
                      /\ lib'.isComplete[m] = FALSE
                      /\ lib'.elapsedTime[m] = 0
                      /\ lib'.childrenStatus[m] = LibGround(lib.tree).childrenStatus[m]
                      /\ m # n => lib'.updates[m] = 0 /\ lib'.isInterrupted[m] = lib.isInterrupted[m]
    ]_vars

\* a composite has handled its interrupt in the tick and the nodes below it still
\* carry theirs; the tick's error was caught, so that root.reset() ran after it
C39_Witness ==
  \E n \in LibNodes \ {1} :
    /\ lib.handled[n]
    /\ ~lib.isInterrupted[n]
    /\ LibReachable(n) # {n}
    /\ \A m \in LibReachable(n) \ {n} : lib.isInterrupted[m]
    /\ lib.isInterrupted[1]
    /\ lib.escaped

====
